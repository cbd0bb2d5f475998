----------------------------- MODULE JitProofs ------------------------------
(***************************************************************************)
(* Proofs about the two parts of jit/ that native code calls into.         *)
(* DispatchCache, for any Protos, hashes and first capacity: the           *)
(* open-addressing table finds what was registered and nothing else,       *)
(* through collisions and growths.  NativeCalls, for any functions and     *)
(* programs: how the C activations on the machine stack and the CallInfos  *)
(* belong together, and that a chain of tail calls has one drive loop.     *)
(* The last part are the lemmas about the values on the Lua stack that     *)
(* NativeCallsProofs builds on.                                            *)
(***************************************************************************)
EXTENDS DispatchCache, NativeCalls, FiniteSetTheorems, SequenceTheorems,
        WellFoundedInduction, TLAPS

-----------------------------------------------------------------------------
(* Arithmetic                                                              *)

(* A finite set of natural numbers has a least one (the sets of the        *)
(* elements up to each element are well-founded by inclusion).             *)
LEMMA LeastOfFinite ==
  ASSUME NEW T \in SUBSET Nat, IsFiniteSet(T), T # {}
  PROVE  \E x \in T : \A y \in T : x <= y
<1> DEFINE Upto(x) == {y \in T : y <= x}
           Family == {Upto(x) : x \in T}
<1>1. Family \subseteq FiniteSubsetsOf(T) /\ Family # {}
  <2>1. ASSUME NEW x \in T PROVE Upto(x) \in SUBSET T /\ IsFiniteSet(Upto(x))
    <3>1. Upto(x) \in SUBSET T
      OBVIOUS
    <3> QED
      BY <3>1, FS_Subset
  <2> HIDE DEF Upto
  <2> QED
    BY <2>1 DEF FiniteSubsetsOf
<1>2. \E D \in Family : \A E \in Family : <<E, D>> \notin StrictSubsetOrdering(T)
  <2> HIDE DEF Family
  <2>1. IsWellFoundedOn(StrictSubsetOrdering(T), FiniteSubsetsOf(T))
    BY FS_StrictSubsetOrderingWellFounded
  <2> QED
    BY <1>1, <2>1, WFMin, Zenon
<1>3. PICK x \in T : \A y \in T : <<Upto(y), Upto(x)>> \notin StrictSubsetOrdering(T)
  BY <1>2, Zenon
<1>4. ASSUME NEW y \in T, y < x PROVE FALSE
  <2>1. x \in Nat /\ y \in Nat /\ \A z \in T : z \in Nat
    OBVIOUS
  <2>2. Upto(y) \subseteq Upto(x)
    <3> SUFFICES ASSUME NEW z \in Upto(y) PROVE z \in Upto(x)
      BY Zenon
    <3> QED
      BY <1>4, <2>1
  <2>3. x \in Upto(x) /\ x \notin Upto(y)
    BY <1>4, <2>1
  <2>4. <<Upto(y), Upto(x)>> \in (SUBSET T) \X (SUBSET T)
    OBVIOUS
  <2>5. <<Upto(y), Upto(x)>> \in StrictSubsetOrdering(T)
    <3> HIDE DEF Upto
    <3> QED
      BY <2>2, <2>3, <2>4 DEF StrictSubsetOrdering
  <2> QED
    BY <1>3, <2>5
<1> QED
  BY <1>4

(* The least of a non-empty set of probes.                                 *)
LEMMA LeastOf ==
  ASSUME NEW n \in Nat, NEW S \in SUBSET (0..(n - 1)), S # {}
  PROVE  Min(S) \in S /\ \A y \in S : Min(S) <= y
<1>1. S \in SUBSET Nat /\ IsFiniteSet(S)
  <2>1. IsFiniteSet(0..(n - 1))
    BY FS_Interval
  <2>2. S \in SUBSET Nat
    OBVIOUS
  <2> QED
    BY <2>1, <2>2, FS_Subset
<1>2. \E x \in S : \A y \in S : x <= y
  BY <1>1, LeastOfFinite
<1> QED
  BY <1>2 DEF Min

(* Division with remainder is unique.                                      *)
LEMMA Remainder ==
  ASSUME NEW m \in Nat \ {0}, NEW q \in Nat, NEW s \in 0..(m - 1)
  PROVE  (m * q + s) % m = s
<1> DEFINE x == m * q + s
           p == x \div m
           r == x % m
<1>1. x \in Nat
  OBVIOUS
<1>2. p \in Int /\ r \in Int
  BY <1>1
<1>3. r >= 0 /\ r < m
  BY <1>1
<1>4. x = m * p + r
  BY <1>1
<1>5. m * q + s = m * p + r
  BY <1>4
<1> HIDE DEF p, r, x
<1>6. m * (q - p) = r - s
  BY <1>2, <1>5
<1>7. q = p
  <2>1. CASE q > p
    <3>1. m * (q - p) >= m
      BY <1>2, <2>1
    <3> QED
      BY <1>2, <1>3, <1>6, <3>1
  <2>2. CASE q < p
    <3>1. m * (p - q) >= m
      BY <1>2, <2>2
    <3>2. m * (p - q) = s - r
      BY <1>2, <1>6
    <3> QED
      BY <1>2, <1>3, <3>1, <3>2
  <2> QED
    BY <1>2, <2>1, <2>2
<1>8. r = s
  BY <1>2, <1>5, <1>7
<1> QED
  BY <1>8 DEF r, x

(* Probing passes every slot.                                              *)
LEMMA ProbesAll ==
  ASSUME NEW h \in Nat, NEW m \in Nat \ {0}, NEW s \in 0..(m - 1)
  PROVE  \E k \in 0..(m - 1) : (h + k) % m = s
<1> DEFINE q == h \div m
           r == h % m
<1>1. q \in Int /\ r \in Int
  OBVIOUS
<1>2. r >= 0 /\ r < m
  OBVIOUS
<1>3. h = m * q + r
  OBVIOUS
<1> HIDE DEF q, r
<1>4. q \in Nat
  <2>1. CASE q < 0
    <3>1. m * q <= 0 - m
      BY <1>1, <2>1
    <3> QED
      BY <1>1, <1>2, <1>3, <3>1
  <2> QED
    BY <1>1, <2>1
<1>5. CASE s >= r
  <2>1. s - r \in 0..(m - 1) /\ h + (s - r) = m * q + s
    BY <1>1, <1>2, <1>3, <1>5
  <2> QED
    BY <1>4, <2>1, Remainder
<1>6. CASE s < r
  <2>1. m + s - r \in 0..(m - 1)
    BY <1>1, <1>2, <1>6
  <2>2. h + (m + s - r) = m * (q + 1) + s
    BY <1>1, <1>3
  <2>3. (m * (q + 1) + s) % m = s
    BY <1>4, Remainder
  <2> QED
    BY <2>1, <2>2, <2>3
<1> QED
  BY <1>1, <1>5, <1>6
-----------------------------------------------------------------------------
(* Tables                                                                  *)

(* The k-th slot probed for p in a table of m slots.                       *)
Probe(m, p, k) == (HashProto[p] + k) % m

(* A table of m slots that holds the first n of the entries e: each        *)
(* once, and reachable from its hash without meeting an empty slot.        *)
Holds(t, m, n, e) ==
  /\ t \in [0..(m - 1) -> 0..n]
  /\ \A x, y \in 0..(m - 1) : t[x] = t[y] /\ t[x] # Empty => x = y
  /\ \A i \in 1..n : \E k \in 0..(m - 1) :
       /\ t[Probe(m, e[i], k)] = i
       /\ \A j \in 0..(k - 1) : t[Probe(m, e[i], j)] # Empty

(* A probe is a slot.                                                      *)
LEMMA ProbeIsSlot ==
  ASSUME NEW m \in Nat \ {0}, NEW p \in Proto, NEW k \in Nat
  PROVE  Probe(m, p, k) \in 0..(m - 1)
<1> DEFINE h == HashProto[p] + k
<1>1. h \in Nat
  BY DispatchAssumption
<1> HIDE DEF h
<1>2. h % m >= 0 /\ h % m < m /\ h % m \in Int
  BY <1>1
<1> QED
  BY <1>2 DEF Probe, h

(* There are m slots.                                                      *)
LEMMA Slots ==
  ASSUME NEW m \in Nat
  PROVE  IsFiniteSet(0..(m - 1)) /\ Cardinality(0..(m - 1)) = m
<1>1. IsFiniteSet(0..(m - 1))
  BY FS_Interval
<1>2. Cardinality(0..(m - 1)) = m
  BY FS_Interval
<1> QED
  BY <1>1, <1>2

(* The size of a table.                                                    *)
LEMMA SizeOf ==
  ASSUME NEW m \in Nat, NEW t, DOMAIN t = 0..(m - 1)
  PROVE  Size(t) = m
  BY Slots DEF Size

(* A table with fewer entries than slots has an empty slot, and probing    *)
(* from any hash comes to one.                                             *)
LEMMA EmptyProbe ==
  ASSUME NEW m \in Nat \ {0}, NEW n \in Nat, n < m, NEW t, NEW e, Holds(t, m, n, e), NEW p \in Proto
  PROVE  \E k \in 0..(m - 1) : t[Probe(m, p, k)] = Empty
<1>1. \E x \in 0..(m - 1) : t[x] = Empty
  <2> SUFFICES ASSUME \A x \in 0..(m - 1) : t[x] # Empty PROVE FALSE
    OBVIOUS
  <2>1. t \in [0..(m - 1) -> 1..n]
    BY DEF Holds, Empty
  <2>2. IsFiniteSet(0..(m - 1)) /\ Cardinality(0..(m - 1)) = m
    BY Slots
  <2>3. IsFiniteSet(1..n) /\ Cardinality(1..n) = n
    BY FS_Interval
  <2>4. \E x, y \in 0..(m - 1) : x # y /\ t[x] = t[y]
    <3> DEFINE S == 0..(m - 1)
               T == 1..n
    <3>1. /\ IsFiniteSet(S) /\ IsFiniteSet(T) /\ Cardinality(T) < Cardinality(S)
          /\ t \in [S -> T]
      BY <2>1, <2>2, <2>3
    <3> HIDE DEF S, T
    <3>2. \E x, y \in S : x # y /\ t[x] = t[y]
      BY ONLY <3>1, FS_PigeonHole
    <3> QED
      BY <3>2 DEF S
  <2> QED
    BY <2>4 DEF Holds
<1>2. PICK x \in 0..(m - 1) : t[x] = Empty
  BY <1>1
<1>3. PICK k \in 0..(m - 1) : (HashProto[p] + k) % m = x
  <2>1. HashProto[p] \in Nat
    BY DispatchAssumption
  <2> QED
    BY <2>1, ProbesAll
<1> QED
  BY <1>2, <1>3 DEF Probe

(* Inserting the next entry where its probe ends keeps the table.          *)
LEMMA InsertHolds ==
  ASSUME NEW m \in Nat \ {0}, NEW n \in Nat, n < m, NEW t, NEW e,
         \A i \in 1..(n + 1) : e[i] \in Proto, Holds(t, m, n, e)
  PROVE  Holds(Insert(t, e[n + 1], n + 1), m, n + 1, e)
<1> DEFINE p == e[n + 1]
           free == {k \in 0..(m - 1) : t[Probe(m, p, k)] = Empty}
           k0 == Min(free)
           u == [t EXCEPT ![Probe(m, p, k0)] = n + 1]
<1>1. p \in Proto
  OBVIOUS
<1>2. free # {}
  BY <1>1, EmptyProbe
<1>3. k0 \in 0..(m - 1) /\ t[Probe(m, p, k0)] = Empty /\ \A j \in free : k0 <= j
  <2>1. free \in SUBSET (0..(m - 1))
    OBVIOUS
  <2>2. k0 \in free /\ \A j \in free : k0 <= j
    <3> HIDE DEF free
    <3> QED
      BY <1>2, <2>1, LeastOf
  <2> QED
    BY <2>2
<1>4. Insert(t, p, n + 1) = u
  <2>1. Size(t) = m
    BY SizeOf DEF Holds
  <2>2. {k \in Probes(t) : t[SlotAt(t, p, k)] = Empty} = free
    BY <2>1 DEF Probes, SlotAt, Probe
  <2>3. SlotAt(t, p, k0) = Probe(m, p, k0)
    BY <2>1 DEF SlotAt, Probe
  <2> HIDE DEF free
  <2> QED
    BY <1>2, <2>2, <2>3 DEF Insert
<1>5. t \in [0..(m - 1) -> 0..n] /\ Probe(m, p, k0) \in 0..(m - 1)
  <2>1. k0 \in Nat
    BY <1>3
  <2> HIDE DEF k0, p
  <2>2. Probe(m, p, k0) \in 0..(m - 1)
    BY <1>1, <2>1, ProbeIsSlot
  <2> QED
    BY <2>2 DEF Holds
<1> HIDE DEF k0
<1>6. /\ u \in [0..(m - 1) -> 0..(n + 1)] /\ u[Probe(m, p, k0)] = n + 1
      /\ \A x \in 0..(m - 1) : x # Probe(m, p, k0) => u[x] = t[x]
  BY <1>5
<1>7. ASSUME NEW x \in 0..(m - 1), t[x] # Empty PROVE u[x] = t[x]
  BY <1>3, <1>6, <1>7
<1>8. ASSUME NEW x \in 0..(m - 1), t[x] # Empty PROVE u[x] # Empty
  BY <1>7, <1>8
<1>9. ASSUME NEW x \in 0..(m - 1), NEW y \in 0..(m - 1), u[x] = u[y], u[x] # Empty PROVE x = y
  <2>1. \A z \in 0..(m - 1) : t[z] # n + 1
    BY <1>5
  <2>2. \A z \in 0..(m - 1) : u[z] = n + 1 => z = Probe(m, p, k0)
    BY <1>6, <2>1
  <2> HIDE DEF u
  <2>3. CASE u[x] = n + 1
    BY <1>9, <2>2, <2>3
  <2>4. CASE u[x] # n + 1
    <3>1. x # Probe(m, p, k0) /\ y # Probe(m, p, k0)
      BY <1>6, <1>9, <2>4
    <3>2. t[x] = t[y] /\ t[x] # Empty
      BY <1>6, <1>9, <3>1
    <3> QED
      BY <3>2 DEF Holds
  <2> QED
    BY <2>3, <2>4
<1> HIDE DEF u
<1>10. ASSUME NEW i \in 1..(n + 1)
       PROVE  \E k \in 0..(m - 1) : /\ u[Probe(m, e[i], k)] = i
                                    /\ \A j \in 0..(k - 1) : u[Probe(m, e[i], j)] # Empty
  <2>1. CASE i = n + 1
    <3>1. ASSUME NEW j \in 0..(k0 - 1) PROVE u[Probe(m, p, j)] # Empty
      <4>1. j \in 0..(m - 1) /\ j \in Nat /\ ~(k0 <= j)
        BY <1>3
      <4>2. t[Probe(m, p, j)] # Empty
        BY <1>3, <4>1
      <4>3. Probe(m, p, j) \in 0..(m - 1)
        BY <1>1, <4>1, ProbeIsSlot
      <4> QED
        BY <1>8, <4>2, <4>3
    <3> QED
      BY <1>3, <1>6, <2>1, <3>1
  <2>2. CASE i \in 1..n
    <3>1. PICK k \in 0..(m - 1) : /\ t[Probe(m, e[i], k)] = i
                                 /\ \A j \in 0..(k - 1) : t[Probe(m, e[i], j)] # Empty
      BY <2>2 DEF Holds
    <3>2. \A j \in 0..k : j \in Nat /\ Probe(m, e[i], j) \in 0..(m - 1)
      BY ProbeIsSlot
    <3>3. u[Probe(m, e[i], k)] = i
      BY <1>7, <2>2, <3>1, <3>2 DEF Empty
    <3>4. ASSUME NEW j \in 0..(k - 1) PROVE u[Probe(m, e[i], j)] # Empty
      <4>1. j \in 0..k
        OBVIOUS
      <4> QED
        BY <1>8, <3>1, <3>2, <4>1
    <3> QED
      BY <3>3, <3>4
  <2> QED
    BY <2>1, <2>2
<1> HIDE DEF p, free
<1>11. Holds(u, m, n + 1, e)
  BY <1>6, <1>9, <1>10 DEF Holds
<1> QED
  BY <1>4, <1>11 DEF p
(* The tables of Rehash, one for each number of entries inserted.          *)
IsTables(f, m, n) ==
  f = [i \in 0..n |-> IF i = 0 THEN EmptyTable(m) ELSE Insert(f[i - 1], entries[i], i)]

(* They exist up to any number of entries.                                 *)
LEMMA TablesExist == ASSUME NEW m \in Nat, NEW n \in Nat PROVE \E f : IsTables(f, m, n)
<1> DEFINE T == {i \in 0..n : ~\E f : IsTables(f, m, i)}
<1>1. CASE T = {}
  BY <1>1
<1>2. CASE T # {}
  <2>1. T \in SUBSET (0..((n + 1) - 1)) /\ n + 1 \in Nat
    OBVIOUS
  <2>2. PICK l \in T : \A i \in T : l <= i
    <3> HIDE DEF T
    <3> QED
      BY <1>2, <2>1, LeastOf
  <2>3. l \in 0..n /\ ~\E f : IsTables(f, m, l)
    OBVIOUS
  <2>4. CASE l = 0
    <3> DEFINE f == [i \in 0..0 |-> EmptyTable(m)]
    <3>1. IsTables(f, m, 0)
      BY DEF IsTables
    <3> QED
      BY <2>3, <2>4, <3>1
  <2>5. CASE l > 0
    <3>1. l - 1 \in 0..n /\ l - 1 \notin T
      BY <2>2, <2>3, <2>5
    <3>2. PICK f : IsTables(f, m, l - 1)
      BY <3>1
    <3> DEFINE g == [i \in 0..l |-> IF i = l THEN Insert(f[l - 1], entries[l], l) ELSE f[i]]
    <3>3. \A i \in 0..(l - 1) : g[i] = f[i]
      BY <2>3, <2>5
    <3>4. \A i \in 0..(l - 1) : f[i] = IF i = 0 THEN EmptyTable(m) ELSE Insert(f[i - 1], entries[i], i)
      BY <3>2 DEF IsTables
    <3>5. ASSUME NEW i \in 0..l
          PROVE  g[i] = IF i = 0 THEN EmptyTable(m) ELSE Insert(g[i - 1], entries[i], i)
      <4>1. CASE i = l
        <5>1. g[i] = Insert(f[l - 1], entries[l], l) /\ i # 0 /\ l - 1 \in 0..(l - 1)
          BY <2>3, <2>5, <4>1
        <5>2. g[l - 1] = f[l - 1]
          BY <3>3, <5>1
        <5> HIDE DEF g
        <5> QED
          BY <4>1, <5>1, <5>2
      <4>2. CASE i \in 0..(l - 1)
        <5>1. i = 0 \/ i - 1 \in 0..(l - 1)
          BY <2>3, <4>2
        <5> HIDE DEF g
        <5> QED
          BY <3>3, <3>4, <4>2, <5>1
      <4> QED
        BY <2>3, <4>1, <4>2
    <3>6. g = [i \in 0..l |-> g[i]]
      OBVIOUS
    <3> HIDE DEF g
    <3>7. IsTables(g, m, l)
      BY <3>5, <3>6 DEF IsTables
    <3> QED
      BY <2>3, <3>7
  <2> QED
    BY <2>3, <2>4, <2>5
<1> QED
  BY <1>1, <1>2

(* The grown table holds every entry.                                      *)
LEMMA RehashHolds ==
  ASSUME entries \in Seq(Proto), NEW m \in Nat \ {0}, Len(entries) < m
  PROVE  Holds(Rehash(m), m, Len(entries), entries)
<1> DEFINE N == Len(entries)
           table == CHOOSE f : IsTables(f, m, N)
<1>0. N \in Nat /\ \A i \in 1..N : entries[i] \in Proto
  OBVIOUS
<1>1. Rehash(m) = table[N]
  BY DEF Rehash, IsTables
<1>2. IsTables(table, m, N)
  BY <1>0, TablesExist
<1> HIDE DEF table, N
<1>3. \A i \in 0..N : table[i] = IF i = 0 THEN EmptyTable(m) ELSE Insert(table[i - 1], entries[i], i)
  BY <1>2 DEF IsTables
<1> DEFINE T == {i \in 0..N : ~Holds(table[i], m, i, entries)}
<1>4. T = {}
  <2> SUFFICES ASSUME T # {} PROVE FALSE
    OBVIOUS
  <2>1. T \in SUBSET (0..((N + 1) - 1)) /\ N + 1 \in Nat
    BY <1>0
  <2>2. PICK l \in T : \A i \in T : l <= i
    <3> HIDE DEF T
    <3> QED
      BY <2>1, LeastOf
  <2>3. l \in 0..N /\ ~Holds(table[l], m, l, entries)
    OBVIOUS
  <2>4. CASE l = 0
    <3>1. Holds(EmptyTable(m), m, 0, entries)
      BY DEF Holds, EmptyTable, Empty
    <3> QED
      BY <1>3, <2>3, <2>4, <3>1
  <2>5. CASE l > 0
    <3>1. l - 1 \in 0..N /\ l - 1 \notin T /\ l - 1 \in Nat /\ (l - 1) + 1 = l /\ l - 1 < m
      BY <1>0, <2>2, <2>3, <2>5 DEF N
    <3>2. Holds(table[l - 1], m, l - 1, entries)
      BY <3>1
    <3>3. \A i \in 1..((l - 1) + 1) : entries[i] \in Proto
      BY <1>0, <2>3, <3>1
    <3>4. Holds(Insert(table[l - 1], entries[(l - 1) + 1], (l - 1) + 1), m, (l - 1) + 1, entries)
      BY <3>1, <3>2, <3>3, InsertHolds
    <3>5. Holds(Insert(table[l - 1], entries[l], l), m, l, entries)
      BY <3>1, <3>4
    <3> QED
      BY <1>3, <2>3, <2>5, <3>5
  <2> QED
    BY <2>3, <2>4, <2>5
<1>5. Holds(table[N], m, N, entries)
  BY <1>0, <1>4
<1> QED
  BY <1>1, <1>5 DEF N
-----------------------------------------------------------------------------
(* The invariant                                                           *)

Distinct == \A i, j \in 1..Len(entries) : entries[i] = entries[j] => i = j

(* The table holds all the entries; there is none before the first growth. *)
TableHolds ==
  \/ hash = <<>> /\ entries = <<>>
  \/ /\ Size(hash) \in Nat \ {0}
     /\ Holds(hash, Size(hash), Len(entries), entries)

(* Its size follows the array's, but for a growth that got only the array. *)
Roomy ==
  /\ 4 * Len(entries) <= Size(hash)
  /\ ~failed => Size(hash) = 4 * cap

IndInv ==
  /\ entries \in Seq(Proto) /\ cap \in Nat /\ Len(entries) <= cap /\ failed \in BOOLEAN
  /\ memo \in Range(entries) \cup {Nil}
  /\ Distinct /\ TableHolds /\ Roomy

(* A table with a slot is not the missing one.                             *)
LEMMA NotNull == ASSUME Size(hash) \in Nat \ {0} PROVE hash # <<>>
<1> SUFFICES ASSUME hash = <<>> PROVE FALSE
  OBVIOUS
<1>1. DOMAIN hash = {}
  OBVIOUS
<1>2. Size(hash) = 0
  BY <1>1, FS_EmptySet DEF Size
<1> QED
  BY <1>2

(* Probing for a Proto finds it exactly if it is registered.               *)
LEMMA FindExact ==
  ASSUME entries \in Seq(Proto), Distinct, TableHolds, NEW p \in Proto
  PROVE  Find(p) <=> p \in Range(entries)
<1>1. CASE entries = <<>>
  BY <1>1 DEF Find, Range
<1>2. CASE entries # <<>>
  <2> DEFINE m == Size(hash)
             stops == {k \in Probes(hash) : \/ hash[SlotAt(hash, p, k)] = Empty
                                           \/ entries[hash[SlotAt(hash, p, k)]] = p}
             k0 == Min(stops)
  <2>1. m \in Nat \ {0} /\ Holds(hash, m, Len(entries), entries) /\ hash # <<>>
    BY <1>2, NotNull DEF TableHolds
  <2>2. Find(p) <=> stops # {} /\ hash[SlotAt(hash, p, k0)] # Empty
    BY <1>2, <2>1 DEF Find
  <2>3. stops \in SUBSET (0..(m - 1))
    BY DEF Probes
  <2>4. \A k : SlotAt(hash, p, k) = Probe(m, p, k)
    BY DEF SlotAt, Probe
  <2>5. \A k \in 0..(m - 1) : Probe(m, p, k) \in 0..(m - 1) /\ hash[Probe(m, p, k)] \in 0..Len(entries)
    <3> HIDE DEF m
    <3>1. \A k \in 0..(m - 1) : Probe(m, p, k) \in 0..(m - 1)
      <4> SUFFICES ASSUME NEW k \in 0..(m - 1) PROVE Probe(m, p, k) \in 0..(m - 1)
        OBVIOUS
      <4>1. k \in Nat
        BY <2>1
      <4> QED
        BY <2>1, <4>1, ProbeIsSlot
    <3> QED
      BY <2>1, <3>1 DEF Holds
  <2>6. \A k \in stops : \/ hash[Probe(m, p, k)] = Empty
                        \/ entries[hash[Probe(m, p, k)]] = p
    BY <2>4
  <2>7. ASSUME NEW k \in 0..(m - 1), hash[Probe(m, p, k)] = Empty \/ entries[hash[Probe(m, p, k)]] = p
        PROVE  k \in stops
    BY <2>4, <2>7 DEF Probes
  <2>8. stops # {} => k0 \in stops /\ \A k \in stops : k0 <= k
    <3> HIDE DEF stops, m
    <3> QED
      BY <2>1, <2>3, LeastOf
  <2> HIDE DEF m, stops, k0
  <2>9. Len(entries) \in Nat /\ DOMAIN entries = 1..Len(entries)
    OBVIOUS
  <2>10. ASSUME Find(p) PROVE p \in Range(entries)
    <3>1. k0 \in stops /\ hash[Probe(m, p, k0)] # Empty
      BY <2>2, <2>4, <2>8, <2>10
    <3>2. hash[Probe(m, p, k0)] \in 1..Len(entries)
      BY <2>3, <2>5, <2>9, <3>1 DEF Empty
    <3>3. entries[hash[Probe(m, p, k0)]] = p
      BY <2>6, <3>1
    <3> QED
      BY <2>9, <3>2, <3>3 DEF Range
  <2>11. ASSUME p \in Range(entries) PROVE Find(p)
    <3>1. PICK i \in 1..Len(entries) : entries[i] = p
      BY <2>9, <2>11 DEF Range
    <3>2. PICK k \in 0..(m - 1) : /\ hash[Probe(m, p, k)] = i
                                 /\ \A j \in 0..(k - 1) : hash[Probe(m, p, j)] # Empty
      <4>1. \E k \in 0..(m - 1) : /\ hash[Probe(m, entries[i], k)] = i
                                  /\ \A j \in 0..(k - 1) : hash[Probe(m, entries[i], j)] # Empty
        BY <2>1 DEF Holds
      <4> QED
        BY <3>1, <4>1
    <3>3. k \in stops
      BY <2>7, <3>1, <3>2
    <3>4. k0 \in stops /\ k0 <= k /\ k0 \in 0..(m - 1)
      BY <2>3, <2>8, <3>3
    <3>5. hash[Probe(m, p, k0)] # Empty
      <4>1. CASE k0 = k
        BY <2>9, <3>1, <3>2, <4>1 DEF Empty
      <4>2. CASE k0 # k
        <5>1. k0 \in 0..(k - 1)
          BY <3>4, <4>2
        <5> QED
          BY <3>2, <5>1
      <4> QED
        BY <4>1, <4>2
    <3> QED
      BY <2>2, <2>4, <3>4, <3>5
  <2> QED
    BY <2>10, <2>11
<1> QED
  BY <1>1, <1>2

(* The cache starts without a table.                                       *)
LEMMA InitIndInv == Init => IndInv
<1> SUFFICES ASSUME Init PROVE IndInv
  OBVIOUS
<1> USE DEF Init
<1>1. Size(hash) = 0
  <2>1. DOMAIN hash = {}
    OBVIOUS
  <2> QED
    BY <2>1, FS_EmptySet DEF Size
<1>2. entries \in Seq(Proto) /\ Len(entries) = 0
  OBVIOUS
<1>3. Distinct /\ TableHolds /\ Roomy
  BY <1>1, <1>2 DEF Distinct, TableHolds, Roomy
<1>6. cap = 0 /\ failed \in BOOLEAN
  OBVIOUS
<1>4. Len(entries) <= cap /\ cap \in Nat
  BY ONLY <1>2, <1>6
<1>5. memo \in Range(entries) \cup {Nil}
  OBVIOUS
<1> QED
  BY <1>2, <1>3, <1>4, <1>5, <1>6 DEF IndInv
(* What appending an entry that is not there does to the array.            *)
LEMMA Appended ==
  ASSUME IndInv, NEW p \in Proto, p \notin Range(entries), entries' = Append(entries, p)
  PROVE  /\ entries' \in Seq(Proto) /\ Len(entries') = Len(entries) + 1 /\ Len(entries) \in Nat
         /\ \A i \in 1..Len(entries) : entries'[i] = entries[i]
         /\ entries'[Len(entries) + 1] = p
         /\ \A i \in 1..(Len(entries) + 1) : entries'[i] \in Proto
         /\ Range(entries') = Range(entries) \cup {p}
         /\ Distinct'
<1>1. entries \in Seq(Proto)
  BY DEF IndInv
<1>2. /\ entries' \in Seq(Proto) /\ Len(entries') = Len(entries) + 1 /\ Len(entries) \in Nat
      /\ \A i \in 1..Len(entries) : entries'[i] = entries[i]
      /\ entries'[Len(entries) + 1] = p
  BY <1>1
<1>3. DOMAIN entries = 1..Len(entries) /\ DOMAIN entries' = 1..(Len(entries) + 1)
  BY <1>1, <1>2
<1>4. \A i \in 1..(Len(entries) + 1) : entries'[i] \in Proto
  BY <1>2, <1>3
<1>5. 1..(Len(entries) + 1) = 1..Len(entries) \cup {Len(entries) + 1}
  BY <1>2
<1>6. Range(entries') = Range(entries) \cup {p}
  BY <1>2, <1>3, <1>5 DEF Range
<1>7. \A i \in 1..Len(entries) : entries[i] # p
  BY <1>3 DEF Range
<1>8. Distinct'
  BY <1>2, <1>5, <1>7 DEF Distinct, IndInv
<1> QED
  BY <1>2, <1>4, <1>6, <1>8

(* A table of the old entries is one of the first of the new ones; with    *)
(* the new one inserted, it holds them all.                                *)
LEMMA InsertLast ==
  ASSUME IndInv, NEW p \in Proto, p \notin Range(entries), entries' = Append(entries, p),
         NEW m \in Nat \ {0}, 4 * (Len(entries) + 1) <= m,
         NEW t, Holds(t, m, Len(entries), entries), hash' = Insert(t, p, Len(entries) + 1)
  PROVE  /\ Size(hash') = m /\ Holds(hash', m, Len(entries'), entries')
         /\ TableHolds' /\ 4 * Len(entries') <= Size(hash')
<1>1. /\ Len(entries') = Len(entries) + 1 /\ Len(entries) \in Nat
      /\ \A i \in 1..Len(entries) : entries'[i] = entries[i]
      /\ entries'[Len(entries) + 1] = p
      /\ \A i \in 1..(Len(entries) + 1) : entries'[i] \in Proto
  BY Appended
<1>2. Holds(t, m, Len(entries), entries')
  BY <1>1 DEF Holds
<1>3. Len(entries) < m
  BY <1>1
<1>4. Holds(hash', m, Len(entries) + 1, entries')
  BY <1>1, <1>2, <1>3, InsertHolds
<1>5. DOMAIN hash' = 0..(m - 1)
  BY <1>4 DEF Holds
<1>6. Size(hash') = m
  BY <1>5, SizeOf
<1> QED
  BY <1>1, <1>4, <1>6 DEF TableHolds

(* The table of all the entries, when it has one.                          *)
LEMMA TableOfRoom ==
  ASSUME IndInv, ~failed, Len(entries) < cap
  PROVE  /\ Size(hash) \in Nat \ {0} /\ Holds(hash, Size(hash), Len(entries), entries)
         /\ 4 * (Len(entries) + 1) <= Size(hash)
<1>1. Size(hash) = 4 * cap /\ cap \in Nat /\ Len(entries) \in Nat
  BY DEF IndInv, Roomy
<1>2. cap > 0 /\ Size(hash) # 0 /\ Size(hash) \in Nat \ {0}
  BY <1>1
<1>3. hash # <<>>
  BY <1>2, NotNull
<1> QED
  BY <1>1, <1>2, <1>3 DEF IndInv, TableHolds

(* No registration and no lookup breaks the invariant.                     *)
LEMMA NextIndInv == IndInv /\ [Next]_vars => IndInv'
<1> SUFFICES ASSUME IndInv, [Next]_vars PROVE IndInv'
  OBVIOUS
<1>0. ASSUME NEW p \in Proto PROVE Find(p) <=> p \in Range(entries)
  BY FindExact DEF IndInv
<1>1. ASSUME NEW p \in Proto, RegisterInRoom(p) PROVE IndInv'
  <2>1. p \notin Range(entries) /\ ~failed /\ Len(entries) < cap
    BY <1>0, <1>1 DEF RegisterInRoom, MayRegister
  <2>2. /\ entries' = Append(entries, p) /\ hash' = Insert(hash, p, Len(entries) + 1)
        /\ UNCHANGED <<cap, memo, answer, failed>>
    BY <1>1 DEF RegisterInRoom
  <2>3. /\ Size(hash) \in Nat \ {0} /\ Holds(hash, Size(hash), Len(entries), entries)
        /\ 4 * (Len(entries) + 1) <= Size(hash) /\ Size(hash) = 4 * cap
    BY <2>1, TableOfRoom DEF IndInv, Roomy
  <2>4. Size(hash') = Size(hash) /\ TableHolds' /\ 4 * Len(entries') <= Size(hash')
    BY <2>1, <2>2, <2>3, InsertLast
  <2>5. Roomy'
    BY <2>2, <2>3, <2>4 DEF Roomy
  <2>6. /\ entries' \in Seq(Proto) /\ Len(entries') = Len(entries) + 1 /\ Len(entries) \in Nat
        /\ Range(entries') = Range(entries) \cup {p} /\ Distinct'
    BY <2>1, <2>2, Appended
  <2>7. Len(entries') <= cap' /\ cap' \in Nat
    BY <2>1, <2>2, <2>6 DEF IndInv
  <2> QED
    BY <2>2, <2>4, <2>5, <2>6, <2>7 DEF IndInv
<1>2. ASSUME NEW p \in Proto, RegisterGrowing(p) PROVE IndInv'
  <2>1. p \notin Range(entries) /\ ~failed /\ Len(entries) >= cap
    BY <1>0, <1>2 DEF RegisterGrowing, MayRegister
  <2>2. /\ entries' = Append(entries, p) /\ hash' = Insert(Rehash(4 * NewCap), p, Len(entries) + 1)
        /\ cap' = NewCap /\ UNCHANGED <<memo, answer, failed>>
    BY <1>2 DEF RegisterGrowing
  <2>3. entries \in Seq(Proto) /\ Len(entries) \in Nat /\ cap \in Nat /\ Len(entries) = cap
    BY <2>1 DEF IndInv
  <2>4. NewCap \in Nat \ {0} /\ Len(entries) + 1 <= NewCap
    BY <2>3, DispatchAssumption DEF NewCap
  <2> DEFINE m == 4 * NewCap
  <2>5. m \in Nat \ {0} /\ 4 * (Len(entries) + 1) <= m /\ Len(entries) < m
    BY <2>3, <2>4
  <2> HIDE DEF m
  <2>6. Holds(Rehash(m), m, Len(entries), entries)
    BY <2>3, <2>5, RehashHolds
  <2>7. Size(hash') = m /\ TableHolds' /\ 4 * Len(entries') <= Size(hash')
    BY <2>1, <2>2, <2>5, <2>6, InsertLast DEF m
  <2>8. Roomy'
    BY <2>2, <2>7 DEF Roomy, m
  <2>9. /\ entries' \in Seq(Proto) /\ Len(entries') = Len(entries) + 1
        /\ Range(entries') = Range(entries) \cup {p} /\ Distinct'
    BY <2>1, <2>2, Appended
  <2> QED
    BY <2>2, <2>4, <2>7, <2>8, <2>9 DEF IndInv
<1>3. ASSUME NEW p \in Proto, RegisterFails(p) PROVE IndInv'
  <2>1. UNCHANGED <<entries, hash, memo, answer>> /\ failed' = TRUE /\ cap' \in {cap, NewCap}
    BY <1>3 DEF RegisterFails
  <2>2. cap' \in Nat /\ cap' >= cap
    BY <2>1, DispatchAssumption DEF NewCap, IndInv
  <2>3. Len(entries') <= cap'
    BY <2>1, <2>2 DEF IndInv
  <2>4. Distinct' /\ TableHolds' /\ Roomy'
    BY <2>1 DEF IndInv, Distinct, TableHolds, Roomy, Holds, Probe, Size
  <2> QED
    BY <2>1, <2>2, <2>3, <2>4 DEF IndInv
<1>4. ASSUME NEW p \in Proto, Lookup(p) PROVE IndInv'
  <2>1. UNCHANGED <<entries, cap, hash, failed>>
    BY <1>4 DEF Lookup
  <2>2. memo' \in Range(entries) \cup {Nil}
    BY <1>0, <1>4 DEF Lookup, IndInv
  <2>3. Distinct' /\ TableHolds' /\ Roomy'
    BY <2>1 DEF IndInv, Distinct, TableHolds, Roomy, Holds, Probe, Size
  <2> QED
    BY <2>1, <2>2, <2>3 DEF IndInv
<1>5. ASSUME UNCHANGED vars PROVE IndInv'
  <2>1. UNCHANGED <<entries, cap, hash, memo, failed>>
    BY <1>5 DEF vars
  <2>2. Distinct' /\ TableHolds' /\ Roomy'
    BY <2>1 DEF IndInv, Distinct, TableHolds, Roomy, Holds, Probe, Size
  <2> QED
    BY <2>1, <2>2 DEF IndInv
<1>6. ASSUME NEW p \in Proto, RegisterKnown(p) PROVE UNCHANGED vars
  BY <1>6 DEF RegisterKnown
<1> QED
  BY <1>1, <1>2, <1>3, <1>4, <1>5, <1>6 DEF Next

(* The invariant holds in every reachable state.                           *)
LEMMA SpecIndInv == Spec => []IndInv
  BY InitIndInv, NextIndInv, PTL DEF Spec

(* Every variable keeps its type; an index in the table is an entry's.     *)
THEOREM SpecTypeOK == Spec => []TypeOK
<1>1. ASSUME IndInv PROVE TypeOK
  <2>1. memo \in Proto \cup {Nil}
    BY <1>1 DEF IndInv, Range
  <2>2. CASE hash = <<>>
    <3>1. (DOMAIN hash = {} /\ entries = <<>>) \/ Size(hash) # 0
      BY <1>1, <2>2 DEF IndInv, TableHolds
    <3>2. DOMAIN hash = {}
      BY <2>2
    <3>3. Cardinality(DOMAIN hash) = 0
      BY <3>2, FS_EmptySet
    <3>4. Len(entries) \in Nat
      BY <1>1 DEF IndInv
    <3>5. hash \in [0..(0 - 1) -> 0..Len(entries)]
      BY <2>2, <3>4
    <3> QED
      BY <1>1, <2>1, <3>3, <3>5 DEF IndInv, TypeOK
  <2>3. CASE hash # <<>>
    <3>1. hash \in [0..(Size(hash) - 1) -> 0..Len(entries)]
      BY <1>1, <2>3 DEF IndInv, TableHolds, Holds
    <3> QED
      BY <1>1, <2>1, <3>1 DEF IndInv, TypeOK, Size
  <2> QED
    BY <2>2, <2>3
<1> QED
  BY SpecIndInv, <1>1, PTL

(* Every registered Proto is found and no other is, and the table stays    *)
(* at most a quarter full.                                                 *)
THEOREM SpecFindsRegistered == Spec => []FindsRegistered
<1>1. IndInv => FindsRegistered
  BY FindExact DEF IndInv, FindsRegistered, Roomy
<1> QED
  BY SpecIndInv, <1>1, PTL

-----------------------------------------------------------------------------
(* The refinement                                                          *)

(* Every step registers a Proto, looks one up, or changes nothing.         *)
LEMMA StepAbs == IndInv /\ [Next]_vars => [Abs!Next]_<<Range(entries), answer>>
<1> SUFFICES ASSUME IndInv, [Next]_vars PROVE [Abs!Next]_<<Range(entries), answer>>
  OBVIOUS
<1>0. ASSUME NEW p \in Proto PROVE Find(p) <=> p \in Range(entries)
  BY FindExact DEF IndInv
<1>1. ASSUME NEW p \in Proto, RegisterInRoom(p) \/ RegisterGrowing(p) PROVE Abs!Next
  <2>1. p \notin Range(entries) /\ entries' = Append(entries, p) /\ UNCHANGED answer
    BY <1>0, <1>1 DEF RegisterInRoom, RegisterGrowing
  <2>2. Range(entries') = Range(entries) \cup {p}
    BY <2>1, Appended
  <2> QED
    BY <2>1, <2>2 DEF Abs!Next, Abs!Register
<1>2. ASSUME NEW p \in Proto, Lookup(p) PROVE Abs!Next
  <2>1. (memo = p \/ Find(p)) <=> p \in Range(entries)
    BY <1>0, DispatchAssumption DEF IndInv
  <2>2. answer' = <<p, p \in Range(entries)>> /\ UNCHANGED entries
    BY <1>2, <2>1 DEF Lookup
  <2> QED
    BY <2>2 DEF Abs!Next, Abs!Lookup
<1>3. ASSUME UNCHANGED <<entries, answer>> PROVE UNCHANGED <<Range(entries), answer>>
  BY <1>3
<1>4. ASSUME NEW p \in Proto, RegisterFails(p) \/ RegisterKnown(p) PROVE UNCHANGED <<entries, answer>>
  BY <1>4 DEF RegisterFails, RegisterKnown, vars
<1>5. ASSUME UNCHANGED vars PROVE UNCHANGED <<entries, answer>>
  BY <1>5 DEF vars
<1> QED
  BY <1>1, <1>2, <1>3, <1>4, <1>5 DEF Next

(* The cache with its memo is the set of what was registered.              *)
THEOREM SpecImplementsSet == Spec => ImplementsSet
<1>1. Init => Abs!Init
  BY DEF Init, Abs!Init, Range
<1> QED
  BY <1>1, StepAbs, SpecIndInv, PTL DEF Spec, ImplementsSet, Abs!Spec

-----------------------------------------------------------------------------
(* NativeCalls: sequences of anything.                                     *)

IsSeq(s) == \E S : s \in Seq(S)

(* t is s with e behind it.                                                *)
Longer(s, t, e) ==
  /\ IsSeq(t) /\ Len(t) = Len(s) + 1
  /\ \A i \in 1..Len(s) : t[i] = s[i]
  /\ t[Len(s) + 1] = e

(* t is s without its last element.                                        *)
Shorter(s, t) ==
  /\ IsSeq(t) /\ Len(t) = Len(s) - 1
  /\ \A i \in 1..Len(t) : t[i] = s[i]

(* Append makes a sequence longer.                                         *)
LEMMA AppendLonger ==
  ASSUME NEW s, IsSeq(s), NEW e
  PROVE  Longer(s, Append(s, e), e)
<1>1. PICK S : s \in Seq(S)
  BY DEF IsSeq
<1>2. s \in Seq(S \cup {e}) /\ e \in S \cup {e}
  BY <1>1
<1>3. Append(s, e) \in Seq(S \cup {e})
  BY <1>2
<1> QED
  BY <1>2, <1>3 DEF Longer, IsSeq

(* A beginning of a sequence.                                              *)
LEMMA Beginning ==
  ASSUME NEW s, IsSeq(s), NEW k \in 0..Len(s)
  PROVE  /\ IsSeq(SubSeq(s, 1, k)) /\ Len(SubSeq(s, 1, k)) = k
         /\ \A i \in 1..k : SubSeq(s, 1, k)[i] = s[i]
<1>1. PICK S : s \in Seq(S)
  BY DEF IsSeq
<1>2. k \in Int /\ k >= 0 /\ \A i \in 1..k : s[i] \in S
  BY <1>1
<1>3. /\ SubSeq(s, 1, k) \in Seq(S)
      /\ Len(SubSeq(s, 1, k)) = (IF 1 <= k THEN k - 1 + 1 ELSE 0)
      /\ \A i \in 1..(k - 1 + 1) : SubSeq(s, 1, k)[i] = s[1 + i - 1]
  BY <1>2, SubSeqProperties
<1>4. Len(SubSeq(s, 1, k)) = k
  BY <1>2, <1>3
<1>5. \A i \in 1..k : SubSeq(s, 1, k)[i] = s[i]
  BY <1>2, <1>3
<1> QED
  BY <1>3, <1>4, <1>5 DEF IsSeq

(* Front makes a sequence shorter.                                         *)
LEMMA FrontShorter ==
  ASSUME NEW s, IsSeq(s), Len(s) >= 1
  PROVE  Shorter(s, Front(s))
<1>1. Len(s) \in Nat
  BY DEF IsSeq
<1>2. Len(s) - 1 \in 0..Len(s)
  BY <1>1
<1> QED
  BY <1>2, Beginning DEF Shorter, Front

(* Two activations put on top are put there one after the other.           *)
LEMMA TwoLonger ==
  ASSUME NEW s, IsSeq(s), NEW d, NEW e
  PROVE  s \o <<d, e>> = Append(Append(s, d), e)
<1>1. PICK S : s \in Seq(S)
  BY DEF IsSeq
<1>2. s \in Seq(S \cup {d, e}) /\ d \in S \cup {d, e} /\ e \in S \cup {d, e}
  BY <1>1
<1> QED
  BY <1>2

-----------------------------------------------------------------------------
(* The machine stack and the CallInfos.                                    *)

(* Activations that run a function of Lua or C or, "ctail", have handed    *)
(* their frame's place to a C function; those that called a native body    *)
(* and pop its CallInfo, or keep it; those that have luaD_call do it.      *)
Holder == {"body", "cfn", "ctail"}
Entry == {"rtcall", "ccall", "drive"}
Helper == {"slow", "meta", "tfor", "close", "calls", "pcall"}

(* Which activations may be right below one of a kind.                     *)
Under(kind) ==
  IF kind \in {"body", "ctail"} THEN Entry
  ELSE IF kind = "drive" THEN {"rtcall", "ccall"}
  ELSE IF kind \in {"calls", "pcall"} THEN {"cfn"}
  ELSE IF kind \in {"ccall", "cfn"} THEN Helper \cup {"ctail"}
  ELSE {"body"}

(* A CallInfo says whether a drive loop runs its function.                 *)
Infos(c) ==
  /\ IsSeq(c) /\ Len(c) >= 1
  /\ \A j \in 1..Len(c) : "drive" \in DOMAIN c[j] /\ c[j].drive \in BOOLEAN

(* Activations follow each other as the helpers call.                      *)
Ordered(n) ==
  /\ IsSeq(n) /\ Len(n) >= 1 /\ n[1].kind = "cfn"
  /\ \A i \in 2..Len(n) : n[i - 1].kind \in Under(n[i].kind)

(* own tells for each CallInfo where the activation is that runs it, or    *)
(* has just left: then whoever entered it is on top and will pop it.       *)
Places(n, c, own) ==
  /\ own \in [1..Len(c) -> 1..(Len(n) + 1)]
  /\ \A i, j \in 1..Len(c) : i < j => own[i] < own[j]
Held(n, c, own) ==
  /\ \A j \in 1..Len(c) : own[j] <= Len(n) => n[own[j]].kind \in Holder
  /\ \A i \in 1..Len(n) : n[i].kind \in Holder => \E j \in 1..Len(c) : own[j] = i
Pending(n, c, own) == n[Len(n)].kind \in Entry <=> own[Len(c)] = Len(n) + 1

(* The mark of a CallInfo is up while a drive loop is below its function.  *)
Marks(n, c, own) ==
  \A j \in 1..Len(c) : c[j].drive <=> own[j] > 1 /\ n[own[j] - 1].kind = "drive"

(* A pcall knows which CallInfo is its C function's.                       *)
Guards(n, c, own) ==
  \A i \in 1..Len(n) :
    n[i].kind = "pcall" => n[i].a \in 1..Len(c) /\ own[n[i].a] = i - 1

Tower(n, c, own) ==
  /\ Ordered(n) /\ Infos(c)
  /\ Places(n, c, own) /\ Held(n, c, own) /\ Pending(n, c, own)
  /\ Marks(n, c, own) /\ Guards(n, c, own)
Towers(n, c) == \E own : Tower(n, c, own)

(* The CallInfos up to k have kept their marks.                            *)
SameMarks(c, d, k) == Infos(d) /\ \A j \in 1..k : d[j].drive = c[j].drive

(* The parts of a tower, and the numbers in it.                            *)
LEMMA TowerParts ==
  ASSUME NEW n, NEW c, NEW own, Tower(n, c, own)
  PROVE  /\ Ordered(n) /\ Infos(c)
         /\ Places(n, c, own) /\ Held(n, c, own) /\ Pending(n, c, own)
         /\ Marks(n, c, own) /\ Guards(n, c, own)
         /\ Len(n) \in Nat \ {0} /\ Len(c) \in Nat \ {0}
         /\ n[Len(n)].kind \in Holder => own[Len(c)] = Len(n)
         /\ n[Len(n)].kind \notin Holder \cup Entry => own[Len(c)] < Len(n)
<1>1. /\ Ordered(n) /\ Infos(c)
      /\ Places(n, c, own) /\ Held(n, c, own) /\ Pending(n, c, own)
      /\ Marks(n, c, own) /\ Guards(n, c, own)
  BY DEF Tower
<1>2. Len(n) \in Nat \ {0} /\ Len(c) \in Nat \ {0}
  BY <1>1 DEF Ordered, Infos, IsSeq
<1>3. \A j \in 1..Len(c) : own[j] \in 1..(Len(n) + 1) /\ own[j] <= own[Len(c)]
  BY <1>1, <1>2 DEF Places
<1>4. ASSUME n[Len(n)].kind \notin Entry PROVE own[Len(c)] <= Len(n)
  BY <1>1, <1>2, <1>3, <1>4 DEF Pending
<1>5. ASSUME n[Len(n)].kind \in Holder PROVE own[Len(c)] = Len(n)
  <2>1. PICK j \in 1..Len(c) : own[j] = Len(n)
    BY <1>1, <1>2, <1>5 DEF Held
  <2>2. n[Len(n)].kind \notin Entry
    BY <1>5 DEF Holder, Entry
  <2>3. own[Len(c)] <= Len(n) /\ own[Len(c)] >= Len(n)
    BY <1>2, <1>3, <1>4, <2>1, <2>2
  <2> QED
    BY <1>2, <1>3, <2>3
<1>6. ASSUME n[Len(n)].kind \notin Holder \cup Entry PROVE own[Len(c)] < Len(n)
  BY <1>1, <1>2, <1>3, <1>4, <1>6 DEF Held
<1> QED
  BY <1>1, <1>2, <1>5, <1>6

(* The activations up to k stay, with their CallInfos: a tower remains one *)
(* if what is above them fits.                                             *)
Stays(n, c, own, m, d, to, k) ==
  /\ \A i \in 1..k : m[i] = n[i]
  /\ \A j \in 1..Len(d) : to[j] <= k => j <= Len(c) /\ own[j] = to[j] /\ d[j].drive = c[j].drive
  /\ \A j \in 1..Len(c) : own[j] <= k => j <= Len(d) /\ to[j] = own[j]
FitsAbove(m, d, to, k) ==
  /\ \A j \in 1..Len(d) : to[j] > k =>
       /\ to[j] <= Len(m) => m[to[j]].kind \in Holder
       /\ d[j].drive <=> to[j] > 1 /\ m[to[j] - 1].kind = "drive"
  /\ \A i \in (k + 1)..Len(m) :
       /\ m[i].kind \in Holder => \E j \in 1..Len(d) : to[j] = i
       /\ m[i].kind = "pcall" => m[i].a \in 1..Len(d) /\ to[m[i].a] = i - 1

(* What stays of a tower with what fits above it is one.                   *)
LEMMA TowerStays ==
  ASSUME NEW n, NEW c, NEW own, Tower(n, c, own),
         NEW m, NEW d, NEW to, NEW k \in Nat, k <= Len(n), k <= Len(m),
         Ordered(m), Infos(d), Places(m, d, to), Pending(m, d, to),
         Stays(n, c, own, m, d, to, k), FitsAbove(m, d, to, k)
  PROVE  Towers(m, d)
<1> DEFINE N == Len(n)
           K == Len(c)
           M == Len(m)
           L == Len(d)
<1>1. /\ N \in Nat /\ K \in Nat /\ M \in Nat /\ L \in Nat
      /\ Places(n, c, own) /\ Held(n, c, own) /\ Marks(n, c, own) /\ Guards(n, c, own)
  <2>1. M \in Nat /\ L \in Nat
    BY DEF Ordered, Infos, IsSeq
  <2> QED
    BY <2>1, TowerParts
<1>2. /\ \A j \in 1..K : own[j] \in 1..(N + 1)
      /\ \A j \in 1..L : to[j] \in 1..(M + 1)
  BY <1>1 DEF Places
<1>3. /\ \A i \in 1..k : m[i] = n[i]
      /\ \A j \in 1..L : to[j] <= k => j \in 1..K /\ own[j] = to[j] /\ d[j].drive = c[j].drive
      /\ \A j \in 1..K : own[j] <= k => j \in 1..L /\ to[j] = own[j]
  BY <1>1 DEF Stays
<1> HIDE DEF N, K, M, L
<1>4. Held(m, d, to)
  <2>1. ASSUME NEW j \in 1..L, to[j] <= M PROVE m[to[j]].kind \in Holder
    <3>1. CASE to[j] <= k
      <4>1. own[j] = to[j] /\ j \in 1..K /\ to[j] <= N /\ m[to[j]] = n[own[j]]
        BY <1>1, <1>2, <1>3, <3>1 DEF N
      <4> QED
        BY <1>1, <4>1 DEF Held, N, K
    <3>2. CASE to[j] > k
      BY <2>1, <3>2 DEF FitsAbove, L, M
    <3> QED
      BY <1>2, <3>1, <3>2
  <2>2. ASSUME NEW i \in 1..M, m[i].kind \in Holder PROVE \E j \in 1..L : to[j] = i
    <3>1. CASE i <= k
      <4>1. i \in 1..N /\ n[i].kind \in Holder
        BY <1>1, <1>3, <2>2, <3>1 DEF N
      <4>2. PICK j \in 1..K : own[j] = i
        BY <1>1, <4>1 DEF Held, N, K
      <4> QED
        BY <1>3, <3>1, <4>2
    <3>2. CASE i > k
      BY <1>1, <2>2, <3>2 DEF FitsAbove, L, M
    <3> QED
      BY <1>1, <3>1, <3>2
  <2> QED
    BY <2>1, <2>2 DEF Held, L, M
<1>5. Marks(m, d, to)
  <2>1. ASSUME NEW j \in 1..L PROVE d[j].drive <=> to[j] > 1 /\ m[to[j] - 1].kind = "drive"
    <3>1. CASE to[j] <= k
      <4>1. own[j] = to[j] /\ j \in 1..K /\ d[j].drive = c[j].drive
        BY <1>3, <3>1
      <4>2. to[j] > 1 => m[to[j] - 1] = n[own[j] - 1]
        <5>1. to[j] > 1 => to[j] - 1 \in 1..k
          BY <1>1, <1>2, <3>1
        <5> QED
          BY <1>3, <4>1, <5>1
      <4> QED
        BY <1>1, <4>1, <4>2 DEF Marks, K
    <3>2. CASE to[j] > k
      BY <3>2 DEF FitsAbove, L
    <3> QED
      BY <1>2, <3>1, <3>2
  <2> QED
    BY <2>1 DEF Marks, L
<1>6. Guards(m, d, to)
  <2>1. ASSUME NEW i \in 1..M, m[i].kind = "pcall" PROVE m[i].a \in 1..L /\ to[m[i].a] = i - 1
    <3>1. CASE i <= k
      <4>1. i \in 1..N /\ n[i].kind = "pcall" /\ m[i] = n[i]
        BY <1>1, <1>3, <2>1, <3>1 DEF N
      <4>2. n[i].a \in 1..K /\ own[n[i].a] = i - 1
        BY <1>1, <4>1 DEF Guards, N, K
      <4>3. own[n[i].a] <= k
        BY <1>1, <3>1, <4>2
      <4> QED
        BY <1>3, <4>1, <4>2, <4>3
    <3>2. CASE i > k
      BY <1>1, <2>1, <3>2 DEF FitsAbove, L, M
    <3> QED
      BY <1>1, <3>1, <3>2
  <2> QED
    BY <2>1 DEF Guards, L, M
<1> QED
  BY <1>4, <1>5, <1>6 DEF Tower, Towers

-----------------------------------------------------------------------------
(* Activations put on top.                                                 *)

(* One more activation is in order if it may be on top of the last.        *)
LEMMA OrderedLonger ==
  ASSUME NEW n, Ordered(n), NEW m, NEW a, Longer(n, m, a), n[Len(n)].kind \in Under(a.kind)
  PROVE  Ordered(m)
<1>1. Len(n) \in Nat \ {0}
  BY DEF Ordered, IsSeq
<1> QED
  BY <1>1 DEF Ordered, Longer

(* A helper that keeps the CallInfos.                                      *)
LEMMA HelperPushed ==
  ASSUME NEW n, NEW c, Towers(n, c), NEW m, NEW a, Longer(n, m, a),
         a.kind \in Helper, n[Len(n)].kind \in Under(a.kind),
         a.kind = "pcall" => a.a = Len(c),
         NEW d, SameMarks(c, d, Len(c)), Len(d) = Len(c)
  PROVE  Towers(m, d)
<1>1. PICK own : Tower(n, c, own)
  BY DEF Towers
<1> DEFINE N == Len(n)
           K == Len(c)
<1>2. N \in Nat \ {0} /\ K \in Nat \ {0} /\ own[K] = N /\ Places(n, c, own) /\ Ordered(n)
  <2>1. n[Len(n)].kind \in Holder
    BY DEF Under, Helper, Holder
  <2> QED
    BY <1>1, <2>1, TowerParts
<1>3. IsSeq(m) /\ Len(m) = N + 1 /\ m[N + 1] = a /\ \A i \in 1..N : m[i] = n[i]
  BY DEF Longer
<1>4. Len(d) = K /\ Infos(d) /\ \A j \in 1..K : d[j].drive = c[j].drive
  BY DEF SameMarks
<1>5. own \in [1..K -> 1..(N + 1)] /\ \A i, j \in 1..K : i < j => own[i] < own[j]
  BY <1>2 DEF Places
<1>6. \A j \in 1..K : own[j] \in 1..N
  BY <1>2, <1>5
<1>7. Ordered(m)
  BY <1>2, OrderedLonger
<1> HIDE DEF N, K
<1>8. Places(m, d, own)
  <2>1. own \in [1..K -> 1..(N + 1 + 1)]
    BY <1>2, <1>6, <1>5
  <2> QED
    BY <1>3, <1>4, <1>5, <2>1 DEF Places
<1>9. Pending(m, d, own)
  BY <1>2, <1>3, <1>4 DEF Pending, Helper, Entry
<1>10. Stays(n, c, own, m, d, own, N)
  BY <1>3, <1>4, <1>6 DEF Stays, K
<1>11. FitsAbove(m, d, own, N)
  <2>1. \A j \in 1..K : ~(own[j] > N)
    BY <1>2, <1>6
  <2>2. \A i \in (N + 1)..(N + 1) : i = N + 1 /\ i - 1 = N
    BY <1>2
  <2>3. a.kind \notin Holder
    BY DEF Helper, Holder
  <2> QED
    BY <1>2, <1>3, <1>4, <2>1, <2>2, <2>3 DEF FitsAbove, K
<1> QED
  <2>1. N \in Nat /\ N <= Len(n) /\ N <= Len(m)
    BY <1>2, <1>3 DEF N
  <2> QED
    BY <1>1, <1>4, <1>7, <1>8, <1>9, <1>10, <1>11, <2>1, TowerStays

(* A native body, or a C function in its place, where one was entered.     *)
LEMMA HolderPushed ==
  ASSUME NEW n, NEW c, Towers(n, c), NEW m, NEW a, Longer(n, m, a),
         a.kind \in {"body", "ctail"}, n[Len(n)].kind \in Entry,
         NEW d, SameMarks(c, d, Len(c)), Len(d) = Len(c)
  PROVE  Towers(m, d)
<1>1. PICK own : Tower(n, c, own)
  BY DEF Towers
<1> DEFINE N == Len(n)
           K == Len(c)
<1>2. /\ N \in Nat \ {0} /\ K \in Nat \ {0} /\ own[K] = N + 1
      /\ Places(n, c, own) /\ Ordered(n) /\ Marks(n, c, own)
  BY <1>1, TowerParts DEF Pending
<1>3. IsSeq(m) /\ Len(m) = N + 1 /\ m[N + 1] = a /\ \A i \in 1..N : m[i] = n[i]
  BY DEF Longer
<1>4. Len(d) = K /\ Infos(d) /\ \A j \in 1..K : d[j].drive = c[j].drive
  BY DEF SameMarks
<1>5. own \in [1..K -> 1..(N + 1)] /\ \A i, j \in 1..K : i < j => own[i] < own[j]
  BY <1>2 DEF Places
<1>6. \A j \in 1..K : own[j] \in 1..(N + 1) /\ (own[j] > N => j = K)
  BY <1>2, <1>5
<1>7. Ordered(m)
  <2>1. n[Len(n)].kind \in Under(a.kind)
    BY DEF Under
  <2> QED
    BY <1>2, <2>1, OrderedLonger
<1> HIDE DEF N, K
<1>8. Places(m, d, own)
  <2>1. own \in [1..K -> 1..(N + 1 + 1)]
    BY <1>2, <1>6, <1>5
  <2> QED
    BY <1>3, <1>4, <1>5, <2>1 DEF Places
<1>9. Pending(m, d, own)
  BY <1>2, <1>3, <1>4 DEF Pending, Entry
<1>10. Stays(n, c, own, m, d, own, N)
  BY <1>3, <1>4, <1>6 DEF Stays, K
<1>11. FitsAbove(m, d, own, N)
  <2>1. m[own[K]].kind \in Holder
    BY <1>2, <1>3 DEF Holder
  <2>2. d[K].drive <=> own[K] > 1 /\ m[own[K] - 1].kind = "drive"
    <3>1. own[K] - 1 = N /\ m[N] = n[N] /\ K \in 1..K
      BY <1>2, <1>3
    <3> QED
      BY <1>2, <1>4, <3>1 DEF Marks, K
  <2>3. \A i \in (N + 1)..(N + 1) : i = N + 1
    BY <1>2
  <2>4. K \in 1..K
    BY <1>2
  <2> QED
    BY <1>2, <1>3, <1>4, <1>6, <2>1, <2>2, <2>3, <2>4 DEF FitsAbove
<1> QED
  <2>1. N \in Nat /\ N <= Len(n) /\ N <= Len(m)
    BY <1>2, <1>3 DEF N
  <2> QED
    BY <1>1, <1>4, <1>7, <1>8, <1>9, <1>10, <1>11, <2>1, TowerStays

(* A call: whoever enters a native body, or a C function, with a CallInfo. *)
LEMMA CallPushed ==
  ASSUME NEW n, NEW c, Towers(n, c), NEW m, NEW a, Longer(n, m, a),
         a.kind \in {"rtcall", "ccall", "cfn"}, n[Len(n)].kind \in Under(a.kind),
         NEW d, SameMarks(c, d, Len(c)), Len(d) = Len(c) + 1, ~d[Len(d)].drive
  PROVE  Towers(m, d)
<1>1. PICK own : Tower(n, c, own)
  BY DEF Towers
<1> DEFINE N == Len(n)
           K == Len(c)
           at == IF a.kind = "cfn" THEN N + 1 ELSE N + 2
           to == [j \in 1..(K + 1) |-> IF j = K + 1 THEN at ELSE own[j]]
<1>0. n[Len(n)].kind \notin Entry /\ n[Len(n)].kind # "drive"
  BY DEF Under, Entry, Helper
<1>2. /\ N \in Nat \ {0} /\ K \in Nat \ {0}
      /\ Places(n, c, own) /\ Ordered(n)
      /\ own[K] \in 1..N
  <2>1. N \in Nat \ {0} /\ K \in Nat \ {0} /\ Places(n, c, own) /\ Ordered(n) /\ Pending(n, c, own)
    BY <1>1, TowerParts
  <2> QED
    BY <1>0, <2>1 DEF Pending, Places
<1>3. IsSeq(m) /\ Len(m) = N + 1 /\ m[N + 1] = a /\ \A i \in 1..N : m[i] = n[i]
  BY DEF Longer
<1>4. Len(d) = K + 1 /\ Infos(d) /\ ~d[K + 1].drive /\ \A j \in 1..K : d[j].drive = c[j].drive
  BY DEF SameMarks
<1>5. own \in [1..K -> 1..(N + 1)] /\ \A i, j \in 1..K : i < j => own[i] < own[j]
  BY <1>2 DEF Places
<1>6. \A j \in 1..K : own[j] \in 1..N
  BY <1>2, <1>5
<1>7. Ordered(m)
  BY <1>2, OrderedLonger
<1> HIDE DEF N, K, at
<1>8. at \in (N + 1)..(N + 2) /\ to[K + 1] = at /\ \A j \in 1..K : to[j] = own[j] /\ j # K + 1
  BY <1>2 DEF at
<1>9. \A j \in 1..(K + 1) : j = K + 1 \/ j \in 1..K
  BY <1>2
<1>10. Places(m, d, to)
  <2>1. to \in [1..(K + 1) -> 1..(N + 1 + 1)]
    BY <1>2, <1>6, <1>8, <1>9
  <2>2. ASSUME NEW i \in 1..(K + 1), NEW j \in 1..(K + 1), i < j PROVE to[i] < to[j]
    <3>1. i \in 1..K
      BY <1>2, <2>2
    <3> QED
      BY <1>2, <1>5, <1>6, <1>8, <1>9, <2>2, <3>1
  <2> HIDE DEF to
  <2> QED
    BY <1>3, <1>4, <2>1, <2>2 DEF Places
<1> HIDE DEF to
<1>11. Pending(m, d, to)
  BY <1>2, <1>3, <1>4, <1>8 DEF Pending, Entry, at
<1>12. Stays(n, c, own, m, d, to, N)
  <2>1. \A j \in 1..(K + 1) : to[j] <= N => j \in 1..K
    BY <1>2, <1>8, <1>9
  <2>2. \A j \in 1..K : j \in 1..(K + 1) /\ j <= K /\ j <= K + 1
    BY <1>2
  <2> QED
    BY <1>3, <1>4, <1>8, <2>1, <2>2 DEF Stays, K
<1>13. FitsAbove(m, d, to, N)
  <2>1. \A j \in 1..(K + 1) : to[j] > N => j = K + 1
    BY <1>2, <1>6, <1>8, <1>9
  <2>2. at <= N + 1 => m[at].kind \in Holder
    BY <1>2, <1>3, <1>8 DEF at, Holder
  <2>3. m[at - 1].kind # "drive"
    <3>1. CASE a.kind = "cfn"
      <4>1. at - 1 = N /\ m[N] = n[N]
        BY <1>2, <1>3, <3>1 DEF at
      <4> QED
        BY <1>0, <4>1 DEF N
    <3>2. CASE a.kind # "cfn"
      <4>1. at - 1 = N + 1
        BY <1>2, <3>2 DEF at
      <4> QED
        BY <1>3, <4>1
    <3> QED
      BY <3>1, <3>2
  <2>4. \A i \in (N + 1)..(N + 1) : i = N + 1
    BY <1>2
  <2>5. a.kind \in Holder => at = N + 1
    BY DEF Holder, at
  <2>6. K + 1 \in 1..(K + 1) /\ a.kind # "pcall"
    BY <1>2
  <2> QED
    BY <1>2, <1>3, <1>4, <1>8, <2>1, <2>2, <2>3, <2>4, <2>5, <2>6 DEF FitsAbove
<1> QED
  <2>1. N \in Nat /\ N <= Len(n) /\ N <= Len(m)
    BY <1>2, <1>3 DEF N
  <2> QED
    BY <1>1, <1>4, <1>7, <1>10, <1>11, <1>12, <1>13, <2>1, TowerStays

(* A drive loop, where a native body was entered and has left.             *)
LEMMA DrivePushed ==
  ASSUME NEW n, NEW c, Towers(n, c), NEW m, NEW a, Longer(n, m, a),
         a.kind = "drive", n[Len(n)].kind \in {"rtcall", "ccall"},
         NEW d, SameMarks(c, d, Len(c) - 1), Len(d) = Len(c), d[Len(d)].drive
  PROVE  Towers(m, d)
<1>1. PICK own : Tower(n, c, own)
  BY DEF Towers
<1> DEFINE N == Len(n)
           K == Len(c)
           to == [own EXCEPT ![K] = N + 2]
<1>2. /\ N \in Nat \ {0} /\ K \in Nat \ {0} /\ own[K] = N + 1
      /\ Places(n, c, own) /\ Ordered(n)
  BY <1>1, TowerParts DEF Pending, Entry
<1>3. IsSeq(m) /\ Len(m) = N + 1 /\ m[N + 1] = a /\ \A i \in 1..N : m[i] = n[i]
  BY DEF Longer
<1>4. Len(d) = K /\ Infos(d) /\ d[K].drive /\ \A j \in 1..(K - 1) : d[j].drive = c[j].drive
  BY DEF SameMarks
<1>5. own \in [1..K -> 1..(N + 1)] /\ \A i, j \in 1..K : i < j => own[i] < own[j]
  BY <1>2 DEF Places
<1>6. \A j \in 1..K : j = K \/ j \in 1..(K - 1)
  BY <1>2
<1>7. \A j \in 1..(K - 1) : j \in 1..K /\ j # K /\ own[j] \in 1..N
  BY <1>2, <1>5
<1>8. Ordered(m)
  <2>1. n[Len(n)].kind \in Under(a.kind)
    BY DEF Under
  <2> QED
    BY <1>2, <2>1, OrderedLonger
<1> HIDE DEF N, K
<1>9. to[K] = N + 2 /\ \A j \in 1..(K - 1) : to[j] = own[j]
  BY <1>2, <1>5, <1>7
<1>10. Places(m, d, to)
  <2>1. to \in [1..K -> 1..(N + 1 + 1)]
    BY <1>2, <1>5
  <2>2. ASSUME NEW i \in 1..K, NEW j \in 1..K, i < j PROVE to[i] < to[j]
    <3>1. i \in 1..(K - 1)
      BY <1>2, <2>2
    <3> QED
      BY <1>2, <1>5, <1>6, <1>7, <1>9, <2>2, <3>1
  <2> HIDE DEF to
  <2> QED
    BY <1>3, <1>4, <2>1, <2>2 DEF Places
<1> HIDE DEF to
<1>11. Pending(m, d, to)
  BY <1>2, <1>3, <1>4, <1>9 DEF Pending, Entry
<1>12. Stays(n, c, own, m, d, to, N)
  <2>1. \A j \in 1..K : to[j] <= N \/ own[j] <= N => j \in 1..(K - 1)
    BY <1>2, <1>6, <1>9
  <2>2. \A j \in 1..K : j <= K
    OBVIOUS
  <2> QED
    BY <1>3, <1>4, <1>9, <2>1, <2>2 DEF Stays, K
<1>13. FitsAbove(m, d, to, N)
  <2>1. \A j \in 1..K : to[j] > N => j = K
    BY <1>2, <1>6, <1>7, <1>9
  <2>2. ~(N + 2 <= N + 1) /\ N + 2 > 1 /\ (N + 2) - 1 = N + 1
    BY <1>2
  <2>3. \A i \in (N + 1)..(N + 1) : i = N + 1
    BY <1>2
  <2>4. K \in 1..K /\ a.kind # "pcall" /\ a.kind \notin Holder
    BY <1>2 DEF Holder
  <2> QED
    BY <1>3, <1>4, <1>9, <2>1, <2>2, <2>3, <2>4 DEF FitsAbove
<1> QED
  <2>1. N \in Nat /\ N <= Len(n) /\ N <= Len(m)
    BY <1>2, <1>3 DEF N
  <2> QED
    BY <1>1, <1>4, <1>8, <1>10, <1>11, <1>12, <1>13, <2>1, TowerStays

-----------------------------------------------------------------------------
(* Activations that come back.                                             *)

(* The activations up to k are left, with the CallInfos up to l: those     *)
(* whose function is among them and, where k entered one, that one's.      *)
Cut(n, c, own, m, d, k, l) ==
  LET entered == n[k].kind \in Entry
  IN /\ k \in 1..Len(n) /\ l \in 1..Len(c)
     /\ IsSeq(m) /\ Len(m) = k /\ \A i \in 1..k : m[i] = n[i]
     /\ Infos(d) /\ Len(d) = l
     /\ \A j \in 1..Len(c) : own[j] <= k <=> j < l \/ (j = l /\ ~entered)
     /\ \A j \in 1..l : own[j] <= k => d[j].drive = c[j].drive
     /\ entered => (d[l].drive <=> n[k].kind = "drive")

(* What is left of a tower is one.                                         *)
LEMMA TowerCut ==
  ASSUME NEW n, NEW c, NEW own, Tower(n, c, own),
         NEW m, NEW d, NEW k, NEW l, Cut(n, c, own, m, d, k, l)
  PROVE  Towers(m, d)
<1> DEFINE N == Len(n)
           K == Len(c)
           entered == n[k].kind \in Entry
           to == [j \in 1..l |-> IF j = l /\ entered THEN k + 1 ELSE own[j]]
<1>1. N \in Nat \ {0} /\ K \in Nat \ {0} /\ Ordered(n) /\ Places(n, c, own)
  BY TowerParts
<1>2. /\ k \in 1..N /\ l \in 1..K
      /\ IsSeq(m) /\ Len(m) = k /\ \A i \in 1..k : m[i] = n[i]
      /\ Infos(d) /\ Len(d) = l
      /\ \A j \in 1..K : own[j] <= k <=> j < l \/ (j = l /\ ~entered)
      /\ \A j \in 1..l : own[j] <= k => d[j].drive = c[j].drive
      /\ entered => (d[l].drive <=> n[k].kind = "drive")
  BY DEF Cut
<1>3. own \in [1..K -> 1..(N + 1)] /\ \A i, j \in 1..K : i < j => own[i] < own[j]
  BY <1>1 DEF Places
<1> HIDE DEF N, K
<1>4. k \in Nat \ {0} /\ l \in Nat \ {0} /\ \A j \in 1..l : j \in 1..K
  BY <1>1, <1>2
<1>5. Ordered(m)
  <2>1. n[1].kind = "cfn" /\ \A i \in 2..N : n[i - 1].kind \in Under(n[i].kind)
    BY <1>1 DEF Ordered, N
  <2>2. m[1] = n[1] /\ \A i \in 2..k : m[i] = n[i] /\ m[i - 1] = n[i - 1] /\ i \in 2..N
    BY <1>1, <1>2, <1>4
  <2>3. m[1].kind = "cfn" /\ \A i \in 2..k : m[i - 1].kind \in Under(m[i].kind)
    BY <2>1, <2>2
  <2> QED
    BY <1>2, <1>4, <2>3 DEF Ordered
<1>6. \A j \in 1..l : to[j] = IF j = l /\ entered THEN k + 1 ELSE own[j]
  OBVIOUS
<1> HIDE DEF entered
<1>7. \A j \in 1..l : /\ to[j] \in 1..(k + 1)
                      /\ to[j] > k => j = l /\ entered
                      /\ to[j] <= k => to[j] = own[j]
  BY <1>2, <1>3, <1>4, <1>6, SMTT(30)
<1>8. Places(m, d, to)
  <2>1. to \in [1..l -> 1..(k + 1)]
    BY <1>7
  <2>2. ASSUME NEW i \in 1..l, NEW j \in 1..l, i < j PROVE to[i] < to[j]
    <3>1. to[i] = own[i] /\ own[i] <= k /\ i \in 1..K /\ j \in 1..K
      BY <1>2, <1>4, <1>6, <2>2
    <3>2. own[i] < own[j] /\ own[i] \in Nat
      BY <1>1, <1>3, <2>2, <3>1
    <3>3. to[j] = own[j] \/ to[j] = k + 1
      BY <1>6
    <3> HIDE DEF to
    <3> QED
      BY <1>4, <3>1, <3>2, <3>3
  <2> HIDE DEF to
  <2> QED
    BY <1>2, <2>1, <2>2 DEF Places
<1>9. entered => to[l] = k + 1
  BY <1>4, <1>6
<1>10. ~entered => to[l] <= k
  BY <1>2, <1>4, <1>6
<1> HIDE DEF to
<1>11. Pending(m, d, to)
  <2>1. m[k] = n[k] /\ to[l] \in 1..(k + 1)
    BY <1>2, <1>4, <1>7
  <2> QED
    BY <1>2, <1>4, <1>9, <1>10, <2>1 DEF Pending, entered
<1>12. Stays(n, c, own, m, d, to, k)
  <2>1. ASSUME NEW j \in 1..l, to[j] <= k
        PROVE  j <= K /\ own[j] = to[j] /\ d[j].drive = c[j].drive
    BY <1>1, <1>2, <1>4, <1>7, <2>1
  <2>2. ASSUME NEW j \in 1..K, own[j] <= k PROVE j <= l /\ to[j] = own[j]
    <3>1. j \in 1..l /\ ~(j = l /\ entered)
      BY <1>2, <1>4, <2>2
    <3> QED
      BY <1>6, <3>1
  <2> QED
    BY <1>2, <2>1, <2>2 DEF Stays, K
<1>13. FitsAbove(m, d, to, k)
  <2>1. ASSUME NEW j \in 1..l, to[j] > k
        PROVE  /\ ~(to[j] <= k)
               /\ d[j].drive <=> to[j] > 1 /\ m[to[j] - 1].kind = "drive"
    <3>1. j = l /\ entered /\ to[j] = k + 1 /\ k + 1 > 1 /\ (k + 1) - 1 = k /\ m[k] = n[k]
      BY <1>2, <1>4, <1>7, <1>9, <2>1
    <3> QED
      BY <1>2, <1>4, <3>1
  <2>2. \A i \in (k + 1)..k : FALSE
    BY <1>4
  <2> QED
    BY <1>2, <2>1, <2>2 DEF FitsAbove
<1> QED
  <2>1. k \in Nat /\ k <= Len(n) /\ k <= Len(m)
    BY <1>1, <1>2, <1>4 DEF N
  <2> QED
    BY <1>2, <1>5, <1>8, <1>11, <1>12, <1>13, <2>1, TowerStays

(* The numbers of a tower whose last activation goes.                      *)
LEMMA TopPopped ==
  ASSUME NEW n, NEW c, NEW own, Tower(n, c, own), NEW m, Shorter(n, m),
         Len(n) > 1 \/ n[Len(n)].kind # "cfn"
  PROVE  /\ Len(n) \in Nat /\ Len(c) \in Nat /\ Len(n) > 1
         /\ n[Len(n) - 1].kind \in Under(n[Len(n)].kind)
         /\ IsSeq(m) /\ Len(m) = Len(n) - 1 /\ \A i \in 1..(Len(n) - 1) : m[i] = n[i]
         /\ \A j \in 1..Len(c) : own[j] \in Nat /\ (j < Len(c) => own[j] < own[Len(c)])
<1>1. /\ Len(n) \in Nat \ {0} /\ Len(c) \in Nat \ {0}
      /\ Ordered(n) /\ Places(n, c, own)
  BY TowerParts
<1>2. Len(n) > 1 /\ n[Len(n) - 1].kind \in Under(n[Len(n)].kind)
  BY <1>1 DEF Ordered
<1>3. \A j \in 1..Len(c) : own[j] \in Nat /\ (j < Len(c) => own[j] < own[Len(c)])
  BY <1>1 DEF Places
<1>4. IsSeq(m) /\ Len(m) = Len(n) - 1 /\ \A i \in 1..(Len(n) - 1) : m[i] = n[i]
  BY <1>1 DEF Shorter
<1> QED
  BY <1>1, <1>2, <1>3, <1>4

(* The mark of the function on top tells what is below it.                 *)
LEMMA BelowHolder ==
  ASSUME NEW n, NEW c, Towers(n, c), n[Len(n)].kind \in Holder
  PROVE  c[Len(c)].drive <=> Len(n) > 1 /\ n[Len(n) - 1].kind = "drive"
<1>1. PICK own : Tower(n, c, own)
  BY DEF Towers
<1>2. Marks(n, c, own) /\ own[Len(c)] = Len(n) /\ Len(c) \in 1..Len(c)
  BY <1>1, TowerParts
<1> QED
  BY <1>2 DEF Marks

(* A function returns: its CallInfo waits for whoever entered it.          *)
LEMMA HolderPopped ==
  ASSUME NEW n, NEW c, Towers(n, c), n[Len(n)].kind \in {"body", "ctail"},
         NEW m, Shorter(n, m),
         NEW d, SameMarks(c, d, Len(c)), Len(d) = Len(c)
  PROVE  Towers(m, d)
<1>1. PICK own : Tower(n, c, own)
  BY DEF Towers
<1> DEFINE N == Len(n)
           K == Len(c)
<1>2. /\ N \in Nat /\ K \in Nat /\ N > 1
      /\ n[N - 1].kind \in Entry
      /\ IsSeq(m) /\ Len(m) = N - 1 /\ \A i \in 1..(N - 1) : m[i] = n[i]
      /\ \A j \in 1..K : own[j] \in Nat /\ (j < K => own[j] < own[K])
  BY <1>1, TopPopped DEF Under
<1>3. own[K] = N /\ K \in Nat \ {0} /\ Infos(d)
  BY <1>1, TowerParts DEF Holder, SameMarks
<1>4. c[K].drive <=> n[N - 1].kind = "drive"
  BY <1>2, BelowHolder DEF Holder
<1>5. \A j \in 1..K : d[j].drive = c[j].drive
  BY DEF SameMarks
<1> HIDE DEF N, K
<1>6. \A j \in 1..K : own[j] <= N - 1 <=> j < K
  BY <1>2, <1>3
<1>7. K \in 1..K /\ N - 1 \in 1..N
  BY <1>2, <1>3
<1>8. Cut(n, c, own, m, d, N - 1, K)
  <2>1. d[K].drive <=> n[N - 1].kind = "drive"
    BY <1>4, <1>5, <1>7
  <2> QED
    BY <1>2, <1>3, <1>5, <1>6, <1>7, <2>1 DEF Cut, N, K
<1> QED
  BY <1>1, <1>8, TowerCut

(* A helper is done.                                                       *)
LEMMA HelperPopped ==
  ASSUME NEW n, NEW c, Towers(n, c), n[Len(n)].kind \in Helper,
         NEW m, Shorter(n, m),
         NEW d, SameMarks(c, d, Len(c)), Len(d) = Len(c)
  PROVE  Towers(m, d)
<1>1. PICK own : Tower(n, c, own)
  BY DEF Towers
<1> DEFINE N == Len(n)
           K == Len(c)
<1>2. /\ N \in Nat /\ K \in Nat /\ N > 1
      /\ n[N - 1].kind \notin Entry
      /\ IsSeq(m) /\ Len(m) = N - 1 /\ \A i \in 1..(N - 1) : m[i] = n[i]
      /\ \A j \in 1..K : own[j] \in Nat /\ (j < K => own[j] < own[K])
  BY <1>1, TopPopped DEF Under, Helper, Entry
<1>3. own[K] < N /\ K \in Nat \ {0} /\ Infos(d)
  BY <1>1, TowerParts DEF Helper, Holder, Entry, SameMarks
<1>5. \A j \in 1..K : d[j].drive = c[j].drive
  BY DEF SameMarks
<1> HIDE DEF N, K
<1>6. K \in 1..K /\ N - 1 \in 1..N
  BY <1>2, <1>3
<1>7. \A j \in 1..K : own[j] <= N - 1 /\ (j < K \/ j = K)
  BY <1>2, <1>3, <1>6
<1>8. Cut(n, c, own, m, d, N - 1, K)
  BY <1>2, <1>3, <1>5, <1>6, <1>7 DEF Cut, N, K
<1> QED
  BY <1>1, <1>8, TowerCut

(* A call is over: its CallInfo goes with it.                              *)
LEMMA CallPopped ==
  ASSUME NEW n, NEW c, Towers(n, c), n[Len(n)].kind \in {"rtcall", "ccall", "cfn"}, Len(n) > 1,
         NEW m, Shorter(n, m), NEW d, Shorter(c, d)
  PROVE  Towers(m, d)
<1>1. PICK own : Tower(n, c, own)
  BY DEF Towers
<1> DEFINE N == Len(n)
           K == Len(c)
<1>2. /\ N \in Nat /\ K \in Nat /\ N > 1
      /\ n[N - 1].kind \notin Entry
      /\ IsSeq(m) /\ Len(m) = N - 1 /\ \A i \in 1..(N - 1) : m[i] = n[i]
      /\ \A j \in 1..K : own[j] \in Nat /\ (j < K => own[j] < own[K])
  <2>1. n[N - 1].kind \in Under(n[N].kind)
    BY <1>1, TopPopped
  <2>2. n[N - 1].kind \notin Entry
    BY <2>1 DEF Under, Helper, Entry
  <2> QED
    BY <1>1, <2>2, TopPopped
<1>3. K \in Nat \ {0} /\ Infos(c) /\ Ordered(n) /\ Places(n, c, own) /\ Held(n, c, own)
  BY <1>1, TowerParts
<1>4. own[K] \in N..(N + 1)
  <2>1. own[K] \in 1..(N + 1)
    BY <1>3 DEF Places
  <2>2. n[N].kind = "cfn" => own[K] = N
    BY <1>1, TowerParts DEF Holder
  <2>3. n[N].kind # "cfn" => own[K] = N + 1
    BY <1>1, TowerParts DEF Entry, Pending
  <2> QED
    BY <1>2, <2>1, <2>2, <2>3
<1>5. PICK j \in 1..K : own[j] = 1
  <2>1. n[1].kind \in Holder /\ 1 \in 1..N
    BY <1>2, <1>3 DEF Ordered, Holder
  <2> QED
    BY <1>3, <2>1 DEF Held
<1>6. K >= 2
  BY <1>2, <1>3, <1>4, <1>5
<1>7. \A i \in 1..(K - 1) : own[i] <= N - 1
  <2>1. \A i \in 1..(K - 1) : own[i] # N
    <3>1. n[N].kind # "cfn" => n[N].kind \notin Holder
      BY DEF Holder
    <3>2. n[N].kind = "cfn" => own[K] = N
      BY <1>1, TowerParts DEF Holder
    <3>3. ASSUME NEW i \in 1..(K - 1) PROVE own[i] # N
      <4>1. i \in 1..K /\ own[i] < own[K] /\ own[i] \in Nat
        BY <1>2
      <4>2. own[i] <= N => n[own[i]].kind \in Holder
        BY <1>3, <4>1 DEF Held
      <4> QED
        BY <1>2, <3>1, <3>2, <4>1, <4>2
    <3> QED
      BY <3>3
  <2>2. \A i \in 1..(K - 1) : own[i] < own[K] /\ own[i] \in Nat
    BY <1>2
  <2> QED
    BY <1>2, <1>4, <2>1, <2>2
<1>8. Infos(d) /\ Len(d) = K - 1 /\ \A i \in 1..(K - 1) : d[i].drive = c[i].drive
  <2>1. \A i \in 1..(K - 1) : d[i] = c[i] /\ i \in 1..K
    BY <1>6 DEF Shorter
  <2> QED
    BY <1>3, <1>6, <2>1, SMTT(30) DEF Shorter, Infos
<1> HIDE DEF N, K
<1>9. K - 1 \in 1..K /\ N - 1 \in 1..N
  BY <1>2, <1>6
<1>10. \A i \in 1..K : own[i] <= N - 1 <=> i < K - 1 \/ i = K - 1
  BY <1>2, <1>4, <1>7
<1>11. Cut(n, c, own, m, d, N - 1, K - 1)
  BY <1>2, <1>8, <1>9, <1>10 DEF Cut, N, K
<1> QED
  BY <1>1, <1>11, TowerCut

(* A drive loop is over.                                                   *)
LEMMA DrivePopped ==
  ASSUME NEW n, NEW c, Towers(n, c), n[Len(n)].kind = "drive",
         NEW m, Shorter(n, m),
         NEW d, SameMarks(c, d, Len(c) - 1), Len(d) = Len(c), ~d[Len(d)].drive
  PROVE  Towers(m, d)
<1>1. PICK own : Tower(n, c, own)
  BY DEF Towers
<1> DEFINE N == Len(n)
           K == Len(c)
<1>2. /\ N \in Nat /\ K \in Nat /\ N > 1
      /\ n[N - 1].kind \in Entry /\ n[N - 1].kind # "drive"
      /\ IsSeq(m) /\ Len(m) = N - 1 /\ \A i \in 1..(N - 1) : m[i] = n[i]
      /\ \A j \in 1..K : own[j] \in Nat /\ (j < K => own[j] < own[K])
  BY <1>1, TopPopped DEF Under, Entry
<1>3. own[K] = N + 1 /\ K \in Nat \ {0} /\ Infos(d) /\ Held(n, c, own)
  BY <1>1, TowerParts DEF Pending, Entry, SameMarks
<1>4. \A j \in 1..(K - 1) : d[j].drive = c[j].drive
  BY DEF SameMarks
<1>5. \A j \in 1..(K - 1) : own[j] < N + 1 /\ own[j] # N /\ own[j] \in Nat
  <2>1. \A j \in 1..(K - 1) : own[j] < own[K] /\ j \in 1..K /\ own[j] \in Nat
    BY <1>2
  <2>2. n[N].kind \notin Holder
    BY DEF Holder
  <2> QED
    BY <1>2, <1>3, <2>1, <2>2 DEF Held
<1> HIDE DEF N, K
<1>6. K \in 1..K /\ N - 1 \in 1..N
  BY <1>2, <1>3
<1>7. \A j \in 1..K : j = K \/ j \in 1..(K - 1)
  BY <1>3
<1>8. \A j \in 1..K : own[j] <= N - 1 <=> j < K
  BY <1>2, <1>3, <1>5, <1>7
<1>9. Cut(n, c, own, m, d, N - 1, K)
  <2>1. \A j \in 1..K : own[j] <= N - 1 => d[j].drive = c[j].drive
    BY <1>3, <1>4, <1>7, <1>8
  <2> QED
    BY <1>2, <1>3, <1>6, <1>8, <2>1 DEF Cut, N, K
<1> QED
  BY <1>1, <1>9, TowerCut

(* An error leaves the activations and CallInfos a pcall was called from.  *)
LEMMA Unwound ==
  ASSUME NEW n, NEW c, Towers(n, c), NEW g \in DOMAIN n, n[g].kind = "pcall"
  PROVE  Towers(SubSeq(n, 1, g - 1), SubSeq(c, 1, n[g].a))
<1>1. PICK own : Tower(n, c, own)
  BY DEF Towers
<1> DEFINE N == Len(n)
           K == Len(c)
           l == n[g].a
           m == SubSeq(n, 1, g - 1)
           d == SubSeq(c, 1, l)
<1>2. /\ N \in Nat \ {0} /\ K \in Nat \ {0}
      /\ Ordered(n) /\ Infos(c) /\ Places(n, c, own) /\ Held(n, c, own) /\ Guards(n, c, own)
  BY <1>1, TowerParts
<1>3. g \in 1..N
  BY <1>2 DEF Ordered, IsSeq
<1>4. g > 1 /\ n[g - 1].kind = "cfn"
  BY <1>2, <1>3 DEF Ordered, Under, Entry
<1>5. l \in 1..K /\ own[l] = g - 1
  BY <1>2, <1>3 DEF Guards
<1>6. IsSeq(m) /\ Len(m) = g - 1 /\ \A i \in 1..(g - 1) : m[i] = n[i]
  <2>1. IsSeq(n) /\ g - 1 \in 0..Len(n)
    BY <1>2, <1>3 DEF Ordered
  <2> QED
    BY <2>1, Beginning
<1>7. IsSeq(d) /\ Len(d) = l /\ \A i \in 1..l : d[i] = c[i]
  <2>1. IsSeq(c) /\ l \in 0..Len(c)
    BY <1>2, <1>5 DEF Infos
  <2> QED
    BY <2>1, Beginning
<1>8. own \in [1..K -> 1..(N + 1)] /\ \A i, j \in 1..K : i < j => own[i] < own[j]
  BY <1>2 DEF Places
<1> HIDE DEF N, K, m, d
<1>9. Infos(d)
  BY <1>2, <1>5, <1>7 DEF Infos, K
<1>10. \A j \in 1..K : own[j] <= g - 1 <=> j < l \/ j = l
  <2>1. ASSUME NEW j \in 1..K PROVE own[j] <= g - 1 <=> j < l \/ j = l
    <3>1. j < l => own[j] < own[l]
      BY <1>5, <1>8
    <3>2. l < j => own[l] < own[j]
      BY <1>5, <1>8
    <3>3. own[j] \in Nat /\ own[l] \in Nat /\ j \in Nat /\ l \in Nat
      BY <1>2, <1>5, <1>8
    <3> HIDE DEF l
    <3> QED
      BY <1>2, <1>3, <1>5, <3>1, <3>2, <3>3
  <2> QED
    BY <2>1
<1>11. Cut(n, c, own, m, d, g - 1, l)
  <2>1. n[g - 1].kind \notin Entry
    BY <1>4 DEF Entry
  <2>2. g - 1 \in 1..N
    BY <1>2, <1>3, <1>4
  <2> HIDE DEF l
  <2> QED
    BY <1>5, <1>6, <1>7, <1>9, <1>10, <2>1, <2>2 DEF Cut, N, K
<1> QED
  BY <1>1, <1>11, TowerCut DEF m, d

-----------------------------------------------------------------------------
(* What the operators on the Lua stack do to the CallInfos.                *)

HasCIs(m) == "cis" \in DOMAIN m /\ Infos(m.cis)
Same(m, g) == "cis" \in DOMAIN g /\ g.cis = m.cis
Kept(m, g) == "cis" \in DOMAIN g /\ SameMarks(m.cis, g.cis, Len(m.cis)) /\ Len(g.cis) = Len(m.cis)
Raised(m, g) ==
  /\ "cis" \in DOMAIN g /\ SameMarks(m.cis, g.cis, Len(m.cis))
  /\ Len(g.cis) = Len(m.cis) + 1 /\ ~g.cis[Len(g.cis)].drive
Marked(m, g, mark) ==
  /\ "cis" \in DOMAIN g /\ SameMarks(m.cis, g.cis, Len(m.cis) - 1)
  /\ Len(g.cis) = Len(m.cis) /\ g.cis[Len(g.cis)].drive = mark
Lowered(m, g) == "cis" \in DOMAIN g /\ Shorter(m.cis, g.cis)

(* Writing slots and moving the top leave the CallInfos alone.             *)
LEMMA Writes ==
  ASSUME NEW m, HasCIs(m)
  PROVE  /\ \A at, vs : Same(m, Put(m, at, vs))
         /\ \A from, n, to : Same(m, Copy(m, from, n, to))
         /\ \A t : Same(m, Topped(m, t))
         /\ Same(m, Claimed(m))
         /\ Same(m, Collected(m))
         /\ \A n : Same(m, Grown(m, n))
<1>1. \A at, vs : Same(m, Put(m, at, vs))
  BY DEF Put, Same, HasCIs
<1>2. \A from, n, to : Same(m, Copy(m, from, n, to))
  BY <1>1 DEF Copy
<1>3. \A t : Same(m, Topped(m, t))
  BY DEF Topped, Same, HasCIs
<1>4. Same(m, Claimed(m))
  BY <1>3 DEF Claimed
<1>5. Same(m, Collected(m))
  BY DEF Collected, Same, HasCIs
<1>6. \A n : Same(m, Grown(m, n))
  BY DEF Grown, Same, HasCIs
<1> QED
  BY <1>1, <1>2, <1>3, <1>4, <1>5, <1>6

(* So does making room, with or without a collection.                      *)
LEMMA Checks ==
  ASSUME NEW m, HasCIs(m), NEW n
  PROVE  Same(m, CheckStack(m, n)) /\ \A g \in CheckStackGC(m, n) : Same(m, g)
<1>1. Same(m, m) /\ Same(m, Grown(m, n)) /\ Same(m, Collected(m))
  BY Writes DEF Same, HasCIs
<1>2. Same(m, Grown(Collected(m), n))
  <2>1. HasCIs(Collected(m))
    BY <1>1 DEF HasCIs, Same
  <2>2. Same(Collected(m), Grown(Collected(m), n))
    BY <2>1, Writes
  <2> QED
    BY <1>1, <2>2 DEF Same
<1> QED
  BY <1>1, <1>2 DEF CheckStack, CheckStackGC

(* Two such steps are one.                                                 *)
LEMMA SameTwice ==
  ASSUME NEW m, HasCIs(m), NEW g, Same(m, g)
  PROVE  HasCIs(g) /\ Kept(m, g) /\ \A h : Same(g, h) => Same(m, h)
<1>1. HasCIs(g) /\ \A h : Same(g, h) => Same(m, h)
  BY DEF Same, HasCIs
<1>2. Kept(m, g)
  BY DEF Same, HasCIs, Kept, SameMarks
<1> QED
  BY <1>1, <1>2

(* A new CallInfo has no mark.                                             *)
LEMMA Pushes ==
  ASSUME NEW m, HasCIs(m), NEW g, Same(m, g), NEW func, NEW top, NEW n
  PROVE  Raised(m, PushCI(g, func, top, n)) /\ HasCIs(PushCI(g, func, top, n))
<1> DEFINE ci == [func |-> func, top |-> top, n |-> n, drive |-> FALSE, nextra |-> 0]
           c == m.cis
           d == Append(c, ci)
<1>1. "cis" \in DOMAIN PushCI(g, func, top, n) /\ PushCI(g, func, top, n).cis = d
  BY DEF PushCI, Same
<1>2. Longer(c, d, ci) /\ Infos(c) /\ Len(c) \in Nat \ {0}
  <2>1. Infos(c) /\ Len(c) \in Nat \ {0}
    BY DEF HasCIs, Infos, IsSeq
  <2> QED
    BY <2>1, AppendLonger DEF Infos
<1>3. "drive" \in DOMAIN ci /\ ci.drive = FALSE
  OBVIOUS
<1> HIDE DEF ci, d, c
<1>4. \A j \in 1..(Len(c) + 1) : j \in 1..Len(c) \/ j = Len(c) + 1
  BY <1>2
<1>5. IsSeq(d) /\ Len(d) = Len(c) + 1 /\ d[Len(c) + 1] = ci /\ \A j \in 1..Len(c) : d[j] = c[j]
  BY <1>2 DEF Longer
<1>6. Infos(d)
  <2>1. \A j \in 1..Len(c) : "drive" \in DOMAIN c[j] /\ c[j].drive \in BOOLEAN
    BY <1>2 DEF Infos
  <2>2. \A j \in 1..(Len(c) + 1) : "drive" \in DOMAIN d[j] /\ d[j].drive \in BOOLEAN
    BY <1>3, <1>4, <1>5, <2>1
  <2> QED
    BY <1>2, <1>5, <2>2 DEF Infos
<1>7. SameMarks(c, d, Len(c)) /\ Len(d) = Len(c) + 1 /\ ~d[Len(d)].drive
  BY <1>3, <1>5, <1>6 DEF SameMarks
<1> QED
  BY <1>1, <1>6, <1>7 DEF Raised, HasCIs, c

(* What writes to the new frame of a call leaves.                          *)
LEMMA RaisedSame ==
  ASSUME NEW m, NEW g, Raised(m, g), NEW h, Same(g, h)
  PROVE  Raised(m, h)
BY DEF Raised, Same

(* The missing parameters are filled in.                                   *)
LEMMA Pads ==
  ASSUME NEW m, HasCIs(m), NEW func, NEW p
  PROVE  Same(m, Padded(m, func, p))
<1> DEFINE nils == Nils(p.params - (m.top - func - 1))
           g == Put(m, m.top, nils)
           t == Max({m.top, func + 1 + p.params})
<1>1. Same(m, g) /\ HasCIs(g)
  BY Writes, SameTwice
<1>2. Padded(m, func, p) = Topped(g, t)
  BY DEF Padded
<1> HIDE DEF g, t
<1>3. Same(g, Topped(g, t))
  BY <1>1, Writes
<1> QED
  BY <1>1, <1>2, <1>3, SameTwice

(* A CallInfo that is changed and keeps its mark, or gets another one.     *)
LEMMA Sets ==
  ASSUME NEW m, HasCIs(m), NEW g, Same(m, g), NEW ci,
         "drive" \in DOMAIN ci, ci.drive \in BOOLEAN
  PROVE  /\ Marked(m, SetCI(g, ci), ci.drive) /\ HasCIs(SetCI(g, ci))
         /\ ci.drive = Last(m.cis).drive => Kept(m, SetCI(g, ci))
         /\ Last(SetCI(g, ci).cis) = ci
<1> DEFINE c == m.cis
           f == Front(c)
           d == Append(f, ci)
           K == Len(c)
<1>1. "cis" \in DOMAIN SetCI(g, ci) /\ SetCI(g, ci).cis = d
  BY DEF SetCI, Same
<1>2. Infos(c) /\ IsSeq(c) /\ K \in Nat \ {0}
  BY DEF HasCIs, Infos, IsSeq
<1>3. IsSeq(f) /\ Len(f) = K - 1 /\ \A j \in 1..(K - 1) : f[j] = c[j]
  BY <1>2, FrontShorter DEF Shorter
<1>4. Longer(f, d, ci)
  BY <1>3, AppendLonger
<1> HIDE DEF d, f, c, K
<1>5. IsSeq(d) /\ Len(d) = K /\ d[K] = ci /\ \A j \in 1..(K - 1) : d[j] = c[j]
  BY <1>2, <1>3, <1>4 DEF Longer
<1>6. \A j \in 1..K : j = K \/ j \in 1..(K - 1)
  BY <1>2
<1>7. Infos(d)
  <2>1. \A j \in 1..K : "drive" \in DOMAIN c[j] /\ c[j].drive \in BOOLEAN
    BY <1>2 DEF Infos, K
  <2>2. \A j \in 1..K : "drive" \in DOMAIN d[j] /\ d[j].drive \in BOOLEAN
    BY <1>5, <1>6, <2>1
  <2> QED
    BY <1>2, <1>5, <2>2 DEF Infos
<1>8. Marked(m, SetCI(g, ci), ci.drive)
  BY <1>1, <1>5, <1>7 DEF Marked, SameMarks, K, c
<1>9. ASSUME ci.drive = Last(c).drive PROVE Kept(m, SetCI(g, ci))
  <2>1. \A j \in 1..K : d[j].drive = c[j].drive
    BY <1>5, <1>6, <1>9 DEF Last, K
  <2> QED
    BY <1>1, <1>5, <1>7, <2>1 DEF Kept, SameMarks, K, c
<1>10. Last(SetCI(g, ci).cis) = ci
  BY <1>1, <1>5 DEF Last
<1> QED
  BY <1>1, <1>7, <1>8, <1>9, <1>10 DEF HasCIs, c

(* The CallInfo of the running function, and changes that keep its mark.   *)
LEMMA Current ==
  ASSUME NEW m, HasCIs(m), NEW ci, ci = Last(m.cis)
  PROVE  /\ "drive" \in DOMAIN ci /\ ci.drive \in BOOLEAN
         /\ IsSeq(m.cis) /\ Len(m.cis) \in Nat \ {0}
BY DEF HasCIs, Infos, IsSeq, Last

(* luaD_precall and the C branch of it add a CallInfo.                     *)
LEMMA Precalls ==
  ASSUME NEW m, HasCIs(m), NEW func, NEW n
  PROVE  /\ \A g \in Precall(m, func, n) : Raised(m, g)
         /\ \A g \in PrecallC(m, func, n) : Raised(m, g)
<1> DEFINE p == FnInfo[At(m, func)]
<1>1. ASSUME NEW g \in CheckStackGC(m, p.size)
      PROVE  Raised(m, Padded(PushCI(g, func, func + 1 + p.size, n), func, p))
  <2> DEFINE h == PushCI(g, func, func + 1 + p.size, n)
  <2>1. Same(m, g)
    BY Checks
  <2>2. Raised(m, h) /\ HasCIs(h)
    BY <2>1, Pushes
  <2> HIDE DEF h
  <2>3. Same(h, Padded(h, func, p))
    BY <2>2, Pads
  <2> QED
    BY <2>2, <2>3, RaisedSame DEF h
<1>2. ASSUME NEW g \in CheckStackGC(m, MinStack)
      PROVE  Raised(m, PushCI(g, func, g.top + MinStack, n))
  BY Checks, Pushes
<1> QED
  BY <1>1, <1>2 DEF Precall, PrecallC

(* So does Rt_Call.                                                        *)
LEMMA Enters ==
  ASSUME NEW m, HasCIs(m), NEW func, NEW n
  PROVE  Raised(m, EnterNative(m, func, n))
<1> DEFINE p == FnInfo[At(m, func)]
           need == p.size + Slack
           ceiling == Max({func + 1 + p.size, m.top + need})
           h == PushCI(CheckStack(m, need), func, ceiling, n)
           g == Padded(h, func, p)
<1>1. Same(m, CheckStack(m, need))
  BY Checks
<1>2. Raised(m, h) /\ HasCIs(h)
  BY <1>1, Pushes
<1>3. EnterNative(m, func, n) = IF p.vararg THEN g ELSE Claimed(g)
  BY DEF EnterNative
<1> HIDE DEF h
<1>4. Same(h, g) /\ HasCIs(g)
  BY <1>2, Pads, SameTwice
<1> HIDE DEF g
<1>5. Same(h, Claimed(g))
  BY <1>2, <1>4, Writes, SameTwice
<1> QED
  BY <1>2, <1>3, <1>4, <1>5, RaisedSame

(* luaD_poscall removes it.                                                *)
LEMMA Lowers ==
  ASSUME NEW m, HasCIs(m), NEW g, Same(m, g)
  PROVE  Lowered(m, [g EXCEPT !.cis = Front(@)])
<1>1. Shorter(m.cis, Front(m.cis))
  BY Current, FrontShorter
<1> QED
  BY <1>1 DEF Lowered, Same

(* The whole of luaD_poscall.                                              *)
LEMMA Poscalls ==
  ASSUME NEW m, HasCIs(m), NEW n
  PROVE  Lowered(m, Poscall(m, n))
<1> DEFINE ci == Last(m.cis)
           vs == Adjusted(Read(m, m.top - n, n), ci.n)
           g == Put(m, ci.func, vs)
           h == Topped(g, ci.func + Len(vs))
<1>1. Poscall(m, n) = [h EXCEPT !.cis = Front(@)]
  BY DEF Poscall
<1>2. Same(m, g) /\ HasCIs(g)
  BY Writes, SameTwice
<1> HIDE DEF g
<1>3. Same(g, h)
  BY <1>2, Writes
<1> HIDE DEF h
<1>4. Same(m, h)
  BY <1>2, <1>3, SameTwice
<1> QED
  BY <1>1, <1>4, Lowers

(* luaD_pretailcall reuses it, mark and all.                               *)
LEMMA Pretailcalls ==
  ASSUME NEW m, HasCIs(m), NEW func, NEW narg1, NEW delta
  PROVE  \A g \in Pretailcall(m, func, narg1, delta) : Kept(m, g) /\ HasCIs(g)
<1> DEFINE p == FnInfo[At(m, func)]
           ci == Last(m.cis)
           to == ci.func - delta
           moved(g) == Put(Copy(g, func, narg1, to), to + narg1, Nils(p.params + 1 - narg1))
           new == [ci EXCEPT !.func = to, !.top = to + 1 + p.size]
           end == to + Max({narg1, p.params + 1})
<1>1. Pretailcall(m, func, narg1, delta)
        = {Topped(SetCI(moved(g), new), end) : g \in CheckStackGC(m, p.size - delta)}
  BY DEF Pretailcall
<1>2. "drive" \in DOMAIN new /\ new.drive = ci.drive /\ ci.drive \in BOOLEAN
  BY Current
<1> HIDE DEF new, end, to
<1>3. ASSUME NEW g \in CheckStackGC(m, p.size - delta)
      PROVE  Kept(m, Topped(SetCI(moved(g), new), end)) /\ HasCIs(Topped(SetCI(moved(g), new), end))
  <2> DEFINE h == Copy(g, func, narg1, to)
             s == SetCI(moved(g), new)
  <2>1. Same(m, g) /\ HasCIs(g)
    BY Checks, SameTwice
  <2>2. Same(m, h) /\ HasCIs(h)
    BY <2>1, Writes, SameTwice
  <2>3. Same(m, moved(g))
    <3> HIDE DEF h
    <3>1. Same(h, Put(h, to + narg1, Nils(p.params + 1 - narg1)))
      BY <2>2, Writes
    <3>2. Same(m, Put(h, to + narg1, Nils(p.params + 1 - narg1)))
      BY <2>2, <3>1, SameTwice
    <3> QED
      BY <3>2 DEF h
  <2> HIDE DEF moved
  <2>4. Kept(m, s) /\ HasCIs(s)
    BY <1>2, <2>3, Sets
  <2> HIDE DEF s
  <2>5. Same(s, Topped(s, end)) /\ HasCIs(Topped(s, end))
    BY <2>4, Writes, SameTwice
  <2>6. Kept(m, Topped(s, end))
    BY <2>4, <2>5 DEF Kept, Same
  <2> QED
    BY <2>5, <2>6 DEF s
<1> QED
  BY <1>1, <1>3

(* A vararg frame is copied up, its CallInfo with it.                      *)
LEMMA Adjusts ==
  ASSUME NEW m, HasCIs(m), NEW p
  PROVE  Kept(m, Claimed(AdjustVarargs(m, p)))
<1> DEFINE ci == Last(m.cis)
           actual == m.top - ci.func - 1
           g == CheckStack(m, p.size + 1)
           g2 == Copy(g, ci.func, p.params + 1, g.top)
           h == Put(g2, ci.func + 1, Nils(p.params))
           new == [ci EXCEPT !.nextra = actual - p.params, !.func = @ + actual + 1, !.top = @ + actual + 1]
           s == SetCI(h, new)
<1>1. AdjustVarargs(m, p) = s
  BY DEF AdjustVarargs
<1>2. "drive" \in DOMAIN new /\ new.drive = ci.drive /\ ci.drive \in BOOLEAN
  BY Current
<1>3. Same(m, g) /\ HasCIs(g)
  BY Checks, SameTwice
<1> HIDE DEF g, new
<1>4. Same(m, g2) /\ HasCIs(g2)
  BY <1>3, Writes, SameTwice
<1> HIDE DEF g2
<1>5. Same(m, h)
  BY <1>4, Writes, SameTwice
<1> HIDE DEF h
<1>6. Kept(m, s) /\ HasCIs(s)
  BY <1>2, <1>5, Sets
<1> HIDE DEF s
<1>7. Same(s, Claimed(s))
  BY <1>6, Writes
<1> QED
  BY <1>1, <1>6, <1>7 DEF Kept, Same

(* OP_VARARG writes.                                                       *)
LEMMA GetsVarargs ==
  ASSUME NEW m, HasCIs(m), NEW where, NEW n
  PROVE  \A g \in GetVarargs(m, where, n) : Same(m, g)
<1>1. Same(m, Put(m, where, Adjusted(Extras(m), n)))
  BY Writes
<1>2. ASSUME NEW x, NEW g \in CheckStackGC(m, x)
      PROVE  Same(m, Put(Topped(g, where + x), where, Extras(g)))
  <2> DEFINE h == Topped(g, where + x)
  <2>1. Same(m, g) /\ HasCIs(g)
    BY Checks, SameTwice
  <2>2. Same(m, h) /\ HasCIs(h)
    BY <2>1, Writes, SameTwice
  <2> HIDE DEF h
  <2>3. Same(m, Put(h, where, Extras(g)))
    BY <2>2, Writes, SameTwice
  <2> QED
    BY <2>3 DEF h
<1> QED
  BY <1>1, <1>2 DEF GetVarargs

(* A function that leaves moves its frame back, and keeps its mark.        *)
LEMMA Prepares ==
  ASSUME NEW m, HasCIs(m), NEW a, NEW n
  PROVE  Kept(m, PrepReturn(m, a, n))
<1> DEFINE src == Base(m) + a
           count == IF n = MULTRET THEN m.top - src ELSE n
           dst == Last(m.cis).func - Delta(m)
           g == Copy(m, src, count, dst)
           new == [Last(m.cis) EXCEPT !.func = dst]
           s == SetCI(g, new)
<1>1. PrepReturn(m, a, n) = Topped(s, dst + count)
  BY DEF PrepReturn
<1>2. "drive" \in DOMAIN new /\ new.drive = Last(m.cis).drive /\ Last(m.cis).drive \in BOOLEAN
  BY Current
<1>3. Same(m, g)
  BY Writes
<1> HIDE DEF g, new
<1>4. Kept(m, s) /\ HasCIs(s)
  BY <1>2, <1>3, Sets
<1> HIDE DEF s
<1>5. Same(s, Topped(s, dst + count))
  BY <1>4, Writes
<1> QED
  BY <1>1, <1>4, <1>5 DEF Kept, Same

-----------------------------------------------------------------------------
(* The invariant: the two stacks fit, and the request to go on is for the  *)
(* drive loop on top.                                                      *)

Fit(n, m) == "cis" \in DOMAIN m /\ Towers(n, m.cis)
LoopInv ==
  /\ Fit(nat, stk)
  /\ rep \in BOOLEAN
  /\ rep => nat[Len(nat)].kind = "drive"

(* The stacks fit where the CallInfos are in order.                        *)
LEMMA FitParts ==
  ASSUME NEW n, NEW m, Fit(n, m)
  PROVE  HasCIs(m) /\ Ordered(n) /\ IsSeq(n) /\ Len(n) \in Nat \ {0} /\ Last(n) = n[Len(n)]
<1>1. PICK own : Tower(n, m.cis, own)
  BY DEF Fit, Towers
<1> QED
  BY <1>1, TowerParts DEF Fit, HasCIs, Ordered, Last

(* They go on fitting where only the marks matter.                         *)
LEMMA FitKept ==
  ASSUME NEW n, NEW m, Fit(n, m), NEW g, Kept(m, g), n[Len(n)].kind \in Holder
  PROVE  Fit(n, g)
<1>1. PICK own : Tower(n, m.cis, own)
  BY DEF Fit, Towers
<1> DEFINE N == Len(n)
           K == Len(m.cis)
<1>2. N \in Nat \ {0} /\ K \in Nat \ {0} /\ own[K] = N /\ Places(n, m.cis, own) /\ Ordered(n)
      /\ Pending(n, m.cis, own)
  BY <1>1, TowerParts
<1>3. \A j \in 1..K : own[j] \in 1..N
  <2>1. own \in [1..K -> 1..(N + 1)] /\ \A i, j \in 1..K : i < j => own[i] < own[j]
    BY <1>2 DEF Places
  <2> QED
    BY <1>2, <2>1
<1>4. Infos(g.cis) /\ Len(g.cis) = K /\ "cis" \in DOMAIN g /\ \A j \in 1..K : g.cis[j].drive = m.cis[j].drive
  BY DEF Kept, SameMarks
<1>5. Places(n, g.cis, own) /\ Pending(n, g.cis, own)
  BY <1>2, <1>4 DEF Places, Pending
<1> HIDE DEF N, K
<1>6. Stays(n, m.cis, own, n, g.cis, own, N)
  BY <1>2, <1>4 DEF Stays, K
<1>7. FitsAbove(n, g.cis, own, N)
  <2>1. \A j \in 1..K : ~(own[j] > N)
    BY <1>2, <1>3
  <2>2. \A i \in (N + 1)..N : FALSE
    BY <1>2
  <2> QED
    BY <1>4, <2>1, <2>2 DEF FitsAbove, N
<1> QED
  <2>1. N \in Nat /\ N <= Len(n)
    BY <1>2 DEF N
  <2>2. Towers(n, g.cis)
    BY <1>1, <1>2, <1>4, <1>5, <1>6, <1>7, <2>1, TowerStays
  <2> QED
    BY <1>4, <2>2 DEF Fit

(* And where the CallInfos are the same.                                   *)
LEMMA FitSame ==
  ASSUME NEW n, NEW m, Fit(n, m), NEW g, Same(m, g)
  PROVE  Fit(n, g)
BY DEF Fit, Same

(* A native function runs: no request is up, and any of its helpers fits   *)
(* on top.                                                                 *)
LEMMA BodyRuns ==
  ASSUME LoopInv, Runs("body")
  PROVE  /\ HasCIs(stk) /\ Fit(nat, stk) /\ IsSeq(nat) /\ Len(nat) \in Nat \ {0}
         /\ rep = FALSE /\ nat[Len(nat)].kind = "body"
BY FitParts DEF LoopInv, Runs

-----------------------------------------------------------------------------
(* Calls.                                                                  *)

(* luaD_call, for a helper or in the place of a function.                  *)
LEMMA LuaDCallFits ==
  ASSUME NEW under, NEW m, Fit(under, m), under[Len(under)].kind \in Helper \cup {"ctail"},
         NEW func, NEW n, NEW caller, NEW args, LuaDCall(m, func, n, under, caller, args)
  PROVE  Fit(nat', stk')
<1>1. HasCIs(m) /\ IsSeq(under)
  BY FitParts
<1>2. CASE IsLua(At(m, func))
  <2> DEFINE a == Act("ccall", 0, 0)
             n1 == Append(under, a)
             n2 == Append(n1, Body)
  <2>1. stk' \in Precall(m, func, n) /\ nat' = under \o <<a, Body>>
    BY <1>2 DEF LuaDCall
  <2>2. Raised(m, stk')
    BY <1>1, <2>1, Precalls
  <2>3. Longer(under, n1, a) /\ IsSeq(n1)
    BY <1>1, AppendLonger DEF Longer
  <2>4. a.kind = "ccall" /\ Body.kind = "body"
    BY DEF Act, Body
  <2> HIDE DEF a
  <2>5. Towers(n1, stk'.cis)
    <3>1. under[Len(under)].kind \in Under(a.kind)
      BY <2>4 DEF Under
    <3> HIDE DEF n1
    <3> QED
      BY <2>2, <2>3, <2>4, <3>1, CallPushed DEF Raised, Fit
  <2>6. n1[Len(n1)].kind = "ccall"
    BY <2>3, <2>4 DEF Longer
  <2> HIDE DEF n1
  <2>7. Longer(n1, n2, Body)
    BY <2>3, AppendLonger
  <2>8. nat' = n2
    BY <1>1, <2>1, TwoLonger DEF n1
  <2> HIDE DEF n2
  <2>9. SameMarks(stk'.cis, stk'.cis, Len(stk'.cis))
    BY <2>2 DEF Raised, SameMarks
  <2>10. Towers(n2, stk'.cis)
    BY <2>4, <2>5, <2>6, <2>7, <2>9, HolderPushed DEF Entry
  <2> QED
    BY <2>2, <2>8, <2>10 DEF Raised, Fit
<1>3. CASE ~IsLua(At(m, func))
  <2>1. stk' \in PrecallC(m, func, n) /\ nat' = Append(under, CFunction)
    BY <1>3 DEF LuaDCall
  <2>2. Raised(m, stk')
    BY <1>1, <2>1, Precalls
  <2>3. Longer(under, nat', CFunction)
    BY <1>1, <2>1, AppendLonger
  <2>4. CFunction.kind = "cfn"
    BY DEF Act, CFunction
  <2>5. Towers(nat', stk'.cis)
    <3>1. under[Len(under)].kind \in Under(CFunction.kind)
      BY <2>4 DEF Under
    <3> QED
      BY <2>2, <2>3, <2>4, <3>1, CallPushed DEF Raised, Fit
  <2> QED
    BY <2>2, <2>5 DEF Raised, Fit
<1> QED
  BY <1>2, <1>3

(* A helper calls.                                                         *)
LEMMA HelperCalls ==
  ASSUME NEW under, NEW m, Fit(under, m), NEW g, Kept(m, g), NEW a,
         a.kind \in Helper, under[Len(under)].kind \in Under(a.kind),
         a.kind = "pcall" => a.a = Len(m.cis),
         NEW func, NEW n, NEW caller, NEW args,
         LuaDCall(g, func, n, Append(under, a), caller, args)
  PROVE  Fit(nat', stk')
<1> DEFINE n1 == Append(under, a)
<1>1. Longer(under, n1, a)
  BY FitParts, AppendLonger
<1>2. n1[Len(n1)] = a
  BY <1>1 DEF Longer
<1> HIDE DEF n1
<1>3. Fit(n1, g)
  BY <1>1, HelperPushed DEF Fit, Kept
<1> QED
  BY <1>2, <1>3, LuaDCallFits DEF n1

(* Rt_Call.                                                                *)
LEMMA RtCallFits ==
  ASSUME LoopInv, Runs("body"), NEW m, Same(stk, m),
         NEW a, NEW nargs, NEW n, NEW caller, NEW args, RtCall(m, a, nargs, n, caller, args)
  PROVE  Fit(nat', stk')
<1> DEFINE func == Base(m) + a
           g == IF nargs = MULTRET THEN m ELSE Topped(m, func + 1 + nargs)
<1>1. /\ HasCIs(stk) /\ Fit(nat, stk) /\ IsSeq(nat) /\ nat[Len(nat)].kind = "body"
  BY BodyRuns
<1>2. Same(stk, g) /\ HasCIs(g)
  <2>1. HasCIs(m)
    BY <1>1, SameTwice
  <2>2. Same(m, Topped(m, func + 1 + nargs))
    BY <2>1, Writes
  <2> HIDE DEF func
  <2>3. Same(stk, g)
    BY <1>1, <2>2, SameTwice
  <2> QED
    BY <1>1, <2>3, SameTwice
<1>3. CASE IsLua(At(m, func))
  <2> DEFINE r == Act("rtcall", a, n)
             n1 == Append(nat, r)
             n2 == Append(n1, Body)
  <2>1. stk' = EnterNative(g, func, n) /\ nat' = nat \o <<r, Body>>
    BY <1>3 DEF RtCall
  <2> HIDE DEF g
  <2>2. Raised(g, stk')
    BY <1>2, <2>1, Enters
  <2>3. Longer(nat, n1, r) /\ IsSeq(n1)
    BY <1>1, AppendLonger DEF Longer
  <2>4. r.kind = "rtcall" /\ Body.kind = "body"
    BY DEF Act, Body
  <2> HIDE DEF r
  <2>5. Towers(n1, stk'.cis)
    <3>1. nat[Len(nat)].kind \in Under(r.kind)
      BY <1>1, <2>4 DEF Under
    <3>2. Towers(nat, g.cis)
      BY <1>1, <1>2 DEF Fit, Same
    <3> HIDE DEF n1
    <3> QED
      BY <2>2, <2>3, <2>4, <3>1, <3>2, CallPushed DEF Raised
  <2>6. n1[Len(n1)].kind = "rtcall"
    BY <2>3, <2>4 DEF Longer
  <2> HIDE DEF n1
  <2>7. Longer(n1, n2, Body)
    BY <2>3, AppendLonger
  <2>8. nat' = n2
    BY <1>1, <2>1, TwoLonger DEF n1
  <2> HIDE DEF n2
  <2>9. SameMarks(stk'.cis, stk'.cis, Len(stk'.cis))
    BY <2>2 DEF Raised, SameMarks
  <2>10. Towers(n2, stk'.cis)
    BY <2>4, <2>5, <2>6, <2>7, <2>9, HolderPushed DEF Entry
  <2> QED
    BY <2>2, <2>8, <2>10 DEF Raised, Fit
<1>4. CASE ~IsLua(At(m, func))
  <2> DEFINE slow == Act("slow", 0, n)
  <2>1. LuaDCall(g, func, n, Append(nat, slow), caller, args)
    BY <1>4 DEF RtCall
  <2>2. slow.kind = "slow"
    BY DEF Act
  <2>3. Kept(stk, g)
    BY <1>1, <1>2, SameTwice
  <2>4. nat[Len(nat)].kind \in Under(slow.kind) /\ slow.kind \in Helper
    BY <1>1, <2>2 DEF Under, Helper
  <2> HIDE DEF g, slow
  <2> QED
    BY <1>1, <2>1, <2>2, <2>3, <2>4, HelperCalls
<1> QED
  BY <1>3, <1>4

-----------------------------------------------------------------------------
(* The instructions of a native body, one after the other.                 *)

(* What an instruction that asks for nothing has to leave.                 *)
LEMMA Asked ==
  ASSUME Fit(nat', stk'), rep' = FALSE
  PROVE  LoopInv'
BY DEF LoopInv

(* Writing values behind the live registers.                               *)
LEMMA PushedSame ==
  ASSUME LoopInv, NEW vs
  PROVE  Same(stk, Pushed(vs)) /\ HasCIs(Pushed(vs)) /\ Same(stk, stk)
<1>1. HasCIs(stk)
  BY FitParts DEF LoopInv
<1>2. Same(stk, Pushed(vs))
  BY <1>1, Writes DEF Pushed
<1>3. Same(stk, stk)
  BY <1>1 DEF Same, HasCIs
<1> QED
  BY <1>1, <1>2, <1>3, SameTwice

(* The instructions that call through Rt_Call.                             *)
LEMMA CallsAnother ==
  ASSUME LoopInv,
         \/ \E fn, nargs, n : Call(fn, nargs, n)
         \/ \E fn, g : OpenCall(fn, g)
         \/ \E n : CallOpen(n)
  PROVE  LoopInv'
<1>1. /\ Runs("body") /\ rep' = rep
      /\ \E m, a, nargs, n, caller, args : Same(stk, m) /\ RtCall(m, a, nargs, n, caller, args)
  <2>1. ASSUME NEW fn, NEW nargs, NEW n, Call(fn, nargs, n)
        PROVE  /\ Runs("body") /\ rep' = rep
               /\ \E m, a, na, nr, caller, args : Same(stk, m) /\ RtCall(m, a, na, nr, caller, args)
    BY <2>1, PushedSame DEF Call, Executes
  <2>2. ASSUME NEW fn, NEW g, OpenCall(fn, g)
        PROVE  /\ Runs("body") /\ rep' = rep
               /\ \E m, a, na, nr, caller, args : Same(stk, m) /\ RtCall(m, a, na, nr, caller, args)
    BY <2>2, PushedSame DEF OpenCall, Executes
  <2>3. ASSUME NEW n, CallOpen(n)
        PROVE  /\ Runs("body") /\ rep' = rep
               /\ \E m, a, na, nr, caller, args : Same(stk, m) /\ RtCall(m, a, na, nr, caller, args)
    BY <2>3, PushedSame DEF CallOpen, Consumes
  <2> QED
    BY <2>1, <2>2, <2>3
<1>2. rep = FALSE
  BY <1>1, BodyRuns
<1> QED
  BY <1>1, <1>2, RtCallFits, Asked

(* An instruction whose helper runs a metamethod.                          *)
LEMMA RunsMetamethod ==
  ASSUME LoopInv, NEW r, Meta(r)
  PROVE  LoopInv'
<1> DEFINE m == Claimed(stk)
           args == Tokens(2)
           p == Put(m, m.top, <<prog.inner>> \o args)
           g == Topped(p, m.top + 3)
           a == Act("meta", r, 0)
           caller == Waits(Frame.regs, SubSeq(Frame.regs, 1, r), 1, SubSeq(Frame.regs, r + 2, Live))
<1>1. Runs("body") /\ rep' = rep /\ LuaDCall(g, m.top, 1, Append(nat, a), caller, args)
  BY DEF Meta, Executes
<1>2. HasCIs(stk) /\ Fit(nat, stk) /\ rep = FALSE /\ nat[Len(nat)].kind = "body"
  BY <1>1, BodyRuns
<1> HIDE DEF caller, args
<1>3. Same(stk, m) /\ HasCIs(m)
  BY <1>2, Writes, SameTwice
<1>4. a.kind = "meta"
  BY DEF Act
<1> HIDE DEF m, a
<1>5. Same(stk, p) /\ HasCIs(p)
  BY <1>2, <1>3, Writes, SameTwice
<1> HIDE DEF p
<1>6. Kept(stk, g)
  BY <1>2, <1>5, Writes, SameTwice
<1>7. a.kind \in Helper /\ nat[Len(nat)].kind \in Under(a.kind)
  BY <1>2, <1>4 DEF Under, Helper
<1> HIDE DEF g
<1>8. Fit(nat', stk')
  BY <1>1, <1>2, <1>4, <1>6, <1>7, HelperCalls
<1> QED
  BY <1>1, <1>2, <1>8, Asked

(* One turn of a generic for.                                              *)
LEMMA RunsIterator ==
  ASSUME LoopInv, NEW n, TForCall(n)
  PROVE  LoopInv'
<1> DEFINE triple == <<prog.inner>> \o Tokens(2)
           keep == Frame.regs \o triple \o <<nil>>
           p == Pushed(triple \o <<nil>> \o triple)
           g == Topped(p, Here + 7)
           a == Act("tfor", 0, 0)
           caller == Waits(keep, keep, n, <<>>)
<1>1. Runs("body") /\ rep' = rep /\ LuaDCall(g, Here + 4, n, Append(nat, a), caller, Tokens(2))
  BY DEF TForCall, Executes
<1>2. HasCIs(stk) /\ Fit(nat, stk) /\ rep = FALSE /\ nat[Len(nat)].kind = "body"
  BY <1>1, BodyRuns
<1> HIDE DEF caller
<1>3. Same(stk, p) /\ HasCIs(p)
  BY PushedSame
<1>4. a.kind = "tfor"
  BY DEF Act
<1> HIDE DEF p, a
<1>5. Kept(stk, g)
  BY <1>2, <1>3, Writes, SameTwice
<1>6. a.kind \in Helper /\ nat[Len(nat)].kind \in Under(a.kind)
  BY <1>2, <1>4 DEF Under, Helper
<1> HIDE DEF g
<1>7. Fit(nat', stk')
  BY <1>1, <1>2, <1>4, <1>5, <1>6, HelperCalls
<1> QED
  BY <1>1, <1>2, <1>7, Asked

(* The close of a to-be-closed variable.                                   *)
LEMMA RunsCloser ==
  ASSUME LoopInv, Close
  PROVE  LoopInv'
<1> DEFINE top == Max({stk.top, Last(stk.cis).top})
           args == <<Token(1), nil>>
           p == Put(stk, top, <<prog.inner>> \o args)
           g == Topped(p, top + 3)
           a == Act("close", 0, stk.top)
           caller == [Waits(Frame.regs, Frame.regs, 0, <<>>) EXCEPT !.open = Frame.open, !.closed = TRUE]
<1>1. Runs("body") /\ rep' = rep /\ LuaDCall(g, top, 0, Append(nat, a), caller, args)
  BY DEF Close
<1>2. HasCIs(stk) /\ Fit(nat, stk) /\ rep = FALSE /\ nat[Len(nat)].kind = "body"
  BY <1>1, BodyRuns
<1> HIDE DEF caller, top, args
<1>3. Same(stk, p) /\ HasCIs(p)
  BY <1>2, Writes, SameTwice
<1>4. a.kind = "close"
  BY DEF Act
<1> HIDE DEF p, a
<1>5. Kept(stk, g)
  BY <1>2, <1>3, Writes, SameTwice
<1>6. a.kind \in Helper /\ nat[Len(nat)].kind \in Under(a.kind)
  BY <1>2, <1>4 DEF Under, Helper
<1> HIDE DEF g
<1>7. Fit(nat', stk')
  BY <1>1, <1>2, <1>4, <1>5, <1>6, HelperCalls
<1> QED
  BY <1>1, <1>2, <1>7, Asked

(* A C function that calls the function it was given.                      *)
LEMMA FunctionCalls ==
  ASSUME LoopInv, CCalls
  PROVE  LoopInv'
<1> DEFINE kind == IF FnInfo[Frame.fn].kind = "pcall" THEN "pcall" ELSE "calls"
           kept == IF kind = "pcall" THEN <<yes>> ELSE <<>>
           func == Base(stk) + Len(kept)
           p == Put(stk, Base(stk), kept \o Frame.regs)
           g == Topped(p, stk.top + Len(kept))
           a == Act(kind, Len(stk.cis), func)
           caller == [Waits(kept, kept, MULTRET, <<>>) EXCEPT !.open = 0]
<1>1. Runs("cfn") /\ rep' = rep /\ LuaDCall(g, func, MULTRET, Append(nat, a), caller, Tail(Frame.regs))
  BY DEF CCalls
<1>2. HasCIs(stk) /\ Fit(nat, stk) /\ rep = FALSE /\ nat[Len(nat)].kind = "cfn"
  BY <1>1, FitParts DEF LoopInv, Runs
<1>3. a.kind \in {"pcall", "calls"} /\ a.a = Len(stk.cis)
  BY DEF Act
<1> HIDE DEF caller, func, kept, kind, a
<1>4. Same(stk, p) /\ HasCIs(p)
  BY <1>2, Writes, SameTwice
<1> HIDE DEF p
<1>5. Kept(stk, g)
  BY <1>2, <1>4, Writes, SameTwice
<1>6. a.kind \in Helper /\ nat[Len(nat)].kind \in Under(a.kind)
  BY <1>2, <1>3 DEF Under, Helper
<1> HIDE DEF g
<1>7. Fit(nat', stk')
  BY <1>1, <1>2, <1>3, <1>5, <1>6, HelperCalls
<1> QED
  BY <1>1, <1>2, <1>7, Asked

(* The instructions that only use the function's own registers.            *)
LEMMA OwnRegisters ==
  ASSUME LoopInv,
         \/ VarargPrep \/ Load \/ NewTable \/ SetList
         \/ \E fn : OpenVararg(fn)
         \/ \E n : Vararg(n)
  PROVE  LoopInv'
<1>1. Runs("body") /\ nat' = nat /\ rep' = rep
  BY DEF VarargPrep, Load, NewTable, SetList, OpenVararg, Vararg, Executes, Consumes
<1>2. HasCIs(stk) /\ Fit(nat, stk) /\ rep = FALSE /\ nat[Len(nat)].kind = "body"
  BY <1>1, BodyRuns
<1>3. Kept(stk, stk')
  <2>1. CASE VarargPrep
    BY <1>2, <2>1, Adjusts DEF VarargPrep
  <2>2. CASE Load
    BY <1>2, <2>2, PushedSame, SameTwice DEF Load
  <2>3. CASE NewTable
    <3> DEFINE m == Topped(Pushed(Tokens(1)), Max({stk.top, Here + 1}))
    <3>1. stk' \in {m, Collected(m)}
      BY <2>3 DEF NewTable
    <3>2. Same(stk, m) /\ HasCIs(m)
      BY <1>2, PushedSame, Writes, SameTwice
    <3> HIDE DEF m
    <3>3. Same(stk, Collected(m))
      BY <1>2, <3>2, Writes, SameTwice
    <3> QED
      BY <1>2, <3>1, <3>2, <3>3, SameTwice
  <2>4. CASE SetList
    BY <1>2, <2>4, PushedSame, SameTwice DEF SetList
  <2>5. ASSUME NEW fn, OpenVararg(fn) PROVE Kept(stk, stk')
    <3> DEFINE m == Pushed(<<fn>>)
    <3>1. stk' \in GetVarargs(m, Here + 1, MULTRET)
      BY <2>5 DEF OpenVararg
    <3>2. Same(stk, m) /\ HasCIs(m)
      BY PushedSame
    <3> HIDE DEF m
    <3>3. Same(m, stk')
      BY <3>1, <3>2, GetsVarargs
    <3> QED
      BY <1>2, <3>2, <3>3, SameTwice
  <2>6. ASSUME NEW n, Vararg(n) PROVE Kept(stk, stk')
    <3>1. stk' \in GetVarargs(stk, Here, n)
      BY <2>6 DEF Vararg
    <3>2. Same(stk, stk')
      BY <1>2, <3>1, GetsVarargs
    <3> QED
      BY <1>2, <3>2, SameTwice
  <2> QED
    BY <2>1, <2>2, <2>3, <2>4, <2>5, <2>6
<1>4. Fit(nat, stk')
  BY <1>2, <1>3, FitKept DEF Holder
<1>5. Fit(nat', stk')
  BY <1>1, <1>4
<1> QED
  BY <1>1, <1>2, <1>5, Asked

-----------------------------------------------------------------------------
(* Returning and tail calls.                                               *)

(* The function on top leaves: what is below it entered it.                *)
LEMMA Leaves ==
  ASSUME LoopInv, nat[Len(nat)].kind \in {"body", "ctail"}, NEW g, Kept(stk, g)
  PROVE  /\ Towers(Front(nat), g.cis) /\ IsSeq(Front(nat))
         /\ Front(nat)[Len(Front(nat))].kind \in Entry
         /\ Last(stk.cis).drive <=> Front(nat)[Len(Front(nat))].kind = "drive"
<1>1. Fit(nat, stk) /\ Towers(nat, stk.cis)
  BY DEF LoopInv, Fit
<1>2. HasCIs(stk) /\ Ordered(nat) /\ IsSeq(nat) /\ Len(nat) \in Nat \ {0}
  BY <1>1, FitParts
<1>3. Shorter(nat, Front(nat))
  BY <1>2, FrontShorter
<1>4. Towers(Front(nat), g.cis)
  BY <1>1, <1>3, HolderPopped DEF Kept
<1>5. Len(nat) > 1 /\ nat[Len(nat) - 1].kind \in Entry
  BY <1>2 DEF Ordered, Under
<1>6. Last(stk.cis).drive <=> nat[Len(nat) - 1].kind = "drive"
  BY <1>1, <1>5, BelowHolder DEF Holder, Last
<1>7. Front(nat)[Len(Front(nat))] = nat[Len(nat) - 1] /\ IsSeq(Front(nat))
  <2>1. Len(nat) - 1 \in 1..(Len(nat) - 1)
    BY <1>2, <1>5
  <2> QED
    BY <1>3, <2>1 DEF Shorter
<1> QED
  BY <1>4, <1>5, <1>6, <1>7

(* A native function returns, its CallInfo still there.                    *)
LEMMA Returns ==
  ASSUME LoopInv, NEW n, Return(n)
  PROVE  LoopInv'
<1>1. /\ Runs("body") /\ rep' = rep /\ nat' = Front(nat)
      /\ \E a : stk' = PrepReturn(stk, a, n)
  BY DEF Return, MayLeave
<1>2. HasCIs(stk) /\ rep = FALSE /\ nat[Len(nat)].kind = "body"
  BY <1>1, BodyRuns
<1>3. Kept(stk, stk')
  BY <1>1, <1>2, Prepares
<1>4. Fit(nat', stk')
  BY <1>1, <1>2, <1>3, Leaves DEF Fit, Kept
<1> QED
  BY <1>1, <1>2, <1>4, Asked

(* A tail call of a Lua function: the drive loop of the chain is the one   *)
(* below, or is started.                                                   *)
LEMMA TailCallsLua ==
  ASSUME LoopInv, nat[Len(nat)].kind = "body", NEW t, Kept(stk, t), HasCIs(t),
         stk' = IF Nested THEN t ELSE Drives(t),
         nat' = Front(nat) \o IF Nested THEN <<>> ELSE <<Act("drive", 0, 0), Body>>,
         rep' = Nested
  PROVE  LoopInv'
<1> DEFINE n0 == Front(nat)
<1>1. /\ Towers(n0, t.cis) /\ IsSeq(n0)
      /\ n0[Len(n0)].kind \in Entry
      /\ Nested <=> n0[Len(n0)].kind = "drive"
  BY Leaves DEF Nested
<1>2. Nested \in BOOLEAN
  <2>1. HasCIs(stk)
    BY FitParts DEF LoopInv
  <2> QED
    BY <2>1, Current DEF Nested
<1> HIDE DEF n0
<1>3. CASE Nested
  <2>1. nat' = n0
    <3>1. nat' = n0 \o <<>>
      BY <1>3 DEF n0
    <3> QED
      BY <1>1, <3>1 DEF IsSeq
  <2> QED
    BY <1>1, <1>2, <1>3, <2>1 DEF LoopInv, Fit, Kept
<1>4. CASE ~Nested
  <2> DEFINE drive == Act("drive", 0, 0)
             n1 == Append(n0, drive)
             n2 == Append(n1, Body)
             g == Drives(t)
  <2>1. nat' = n0 \o <<drive, Body>> /\ stk' = g /\ rep' = FALSE
    BY <1>2, <1>4 DEF n0
  <2>2. Marked(t, g, TRUE)
    <3> DEFINE ci == [Last(t.cis) EXCEPT !.drive = TRUE]
    <3>1. "drive" \in DOMAIN ci /\ ci.drive = TRUE
      BY Current
    <3>2. g = SetCI(t, ci) /\ Same(t, t)
      BY DEF Drives, Same, HasCIs
    <3> HIDE DEF ci, g
    <3> QED
      BY <3>1, <3>2, Sets
  <2>3. drive.kind = "drive" /\ Body.kind = "body"
    BY DEF Act, Body
  <2> HIDE DEF drive, g
  <2>4. Longer(n0, n1, drive) /\ IsSeq(n1)
    BY <1>1, AppendLonger DEF Longer
  <2>5. n1[Len(n1)].kind = "drive"
    BY <2>3, <2>4 DEF Longer
  <2>6. Towers(n1, g.cis)
    <3>1. n0[Len(n0)].kind \in {"rtcall", "ccall"}
      BY <1>1, <1>4 DEF Entry
    <3> HIDE DEF n1
    <3> QED
      BY <1>1, <2>2, <2>3, <2>4, <3>1, DrivePushed DEF Marked
  <2> HIDE DEF n1
  <2>7. Longer(n1, n2, Body)
    BY <2>4, AppendLonger
  <2>8. nat' = n2
    BY <1>1, <2>1, TwoLonger DEF n1
  <2> HIDE DEF n2
  <2>9. SameMarks(g.cis, g.cis, Len(g.cis))
    BY <2>2 DEF Marked, SameMarks
  <2>10. Towers(n2, g.cis)
    BY <2>3, <2>5, <2>6, <2>7, <2>9, HolderPushed DEF Entry
  <2>11. Fit(nat', stk')
    BY <2>1, <2>2, <2>8, <2>10 DEF Marked, Fit
  <2> QED
    BY <2>1, <2>11, Asked
<1> QED
  BY <1>3, <1>4

(* A tail call of a C function: it runs in the function's place.           *)
LEMMA TailCallsC ==
  ASSUME LoopInv, nat[Len(nat)].kind = "body", NEW g, Kept(stk, g),
         NEW a, a.kind = "ctail", NEW func, NEW n, NEW caller, NEW args,
         LuaDCall(g, func, n, Append(Front(nat), a), caller, args)
  PROVE  Fit(nat', stk')
<1> DEFINE n0 == Front(nat)
           n1 == Append(n0, a)
<1>1. Towers(n0, g.cis) /\ IsSeq(n0) /\ n0[Len(n0)].kind \in Entry
  BY Leaves
<1> HIDE DEF n0
<1>2. Longer(n0, n1, a)
  BY <1>1, AppendLonger
<1>3. n1[Len(n1)] = a
  BY <1>2 DEF Longer
<1>4. SameMarks(g.cis, g.cis, Len(g.cis)) /\ "cis" \in DOMAIN g
  BY DEF Kept, SameMarks
<1> HIDE DEF n1
<1>5. Fit(n1, g)
  BY <1>1, <1>2, <1>4, HolderPushed DEF Fit
<1>6. LuaDCall(g, func, n, n1, caller, args)
  BY DEF n1, n0
<1> QED
  BY <1>3, <1>5, <1>6, LuaDCallFits

(* Rt_TailCall.                                                            *)
LEMMA TailCalls ==
  ASSUME LoopInv, Runs("body"), NEW m, Same(stk, m),
         NEW a, NEW nargs, NEW fn, NEW args, RtTailCall(m, a, nargs, fn, args)
  PROVE  LoopInv'
<1> DEFINE func == Base(m) + a
           narg1 == IF nargs = MULTRET THEN m.top - func ELSE nargs + 1
           g == Topped(m, func + narg1)
<1>1. HasCIs(stk) /\ rep = FALSE /\ nat[Len(nat)].kind = "body"
  BY BodyRuns
<1>2. Same(stk, g) /\ HasCIs(g)
  <2>1. HasCIs(m)
    BY <1>1, SameTwice
  <2> HIDE DEF func, narg1
  <2>2. Same(m, g)
    BY <2>1, Writes
  <2> HIDE DEF g
  <2> QED
    BY <1>1, <2>2, SameTwice
<1>3. CASE IsLua(fn)
  <2>1. /\ rep' = Nested
        /\ nat' = Front(nat) \o IF Nested THEN <<>> ELSE <<Act("drive", 0, 0), Body>>
        /\ stk' \in {IF Nested THEN t ELSE Drives(t) : t \in Pretailcall(g, func, narg1, Delta(m))}
    BY <1>3 DEF RtTailCall
  <2> HIDE DEF g, func, narg1
  <2>2. PICK t \in Pretailcall(g, func, narg1, Delta(m)) : stk' = IF Nested THEN t ELSE Drives(t)
    BY <2>1
  <2>3. Kept(g, t) /\ HasCIs(t)
    BY <1>2, Pretailcalls
  <2>4. Kept(stk, t)
    BY <1>2, <2>3 DEF Kept, Same
  <2> QED
    BY <1>1, <2>1, <2>2, <2>3, <2>4, TailCallsLua
<1>4. CASE ~IsLua(fn)
  <2> DEFINE act == Act("ctail", a, Delta(m))
  <2>1. /\ rep' = rep
        /\ LuaDCall(g, func, MULTRET, Append(Front(nat), act), Waits(<<>>, <<>>, MULTRET, <<>>), args)
    BY <1>4 DEF RtTailCall
  <2>2. act.kind = "ctail"
    BY DEF Act
  <2>3. Kept(stk, g)
    BY <1>1, <1>2, SameTwice
  <2> HIDE DEF g, func, narg1, act
  <2>4. Fit(nat', stk')
    BY <1>1, <2>1, <2>2, <2>3, TailCallsC
  <2> QED
    BY <1>1, <2>1, <2>4, Asked
<1> QED
  BY <1>3, <1>4

(* The instructions that leave through it.                                 *)
LEMMA TailCallActions ==
  ASSUME LoopInv,
         \/ \E fn, nargs : TailCall(fn, nargs)
         \/ TailOpen
  PROVE  LoopInv'
<1>1. /\ Runs("body")
      /\ \E m, a, nargs, fn, args : Same(stk, m) /\ RtTailCall(m, a, nargs, fn, args)
  <2>1. ASSUME NEW fn, NEW nargs, TailCall(fn, nargs)
        PROVE  /\ Runs("body")
               /\ \E m, a, na, f, args : Same(stk, m) /\ RtTailCall(m, a, na, f, args)
    BY <2>1, PushedSame DEF TailCall, MayLeave
  <2>2. ASSUME TailOpen
        PROVE  /\ Runs("body")
               /\ \E m, a, na, f, args : Same(stk, m) /\ RtTailCall(m, a, na, f, args)
    BY <2>2, PushedSame DEF TailOpen, MayLeave
  <2> QED
    BY <2>1, <2>2
<1> QED
  BY <1>1, TailCalls

-----------------------------------------------------------------------------
(* Callees that have come back.                                            *)

(* A helper goes on, or a C function ends: what is below it is left.       *)
LEMMA TopReturns ==
  ASSUME LoopInv, nat[Len(nat)].kind # "drive"
  PROVE  /\ HasCIs(stk) /\ Fit(nat, stk) /\ Ordered(nat) /\ rep = FALSE
         /\ Shorter(nat, Front(nat)) /\ Len(nat) \in Nat \ {0}
BY FitParts, FrontShorter DEF LoopInv

(* Whatever a helper does then, with the same CallInfos.                   *)
LEMMA HelperGoesOn ==
  ASSUME LoopInv, NEW kind \in Helper, Waiting(kind), NEW g, Kept(stk, g)
  PROVE  Fit(Front(nat), g) /\ rep = FALSE
<1>1. nat[Len(nat)].kind \in Helper /\ nat[Len(nat)].kind # "drive"
  <2>1. nat[Len(nat)].kind = kind
    BY DEF Waiting, Last
  <2> QED
    BY <2>1 DEF Helper
<1> QED
  BY <1>1, TopReturns, HelperPopped DEF Fit, Kept

(* The tails of the helpers.                                               *)
LEMMA HelpersReturn ==
  ASSUME LoopInv,
         \/ SlowReturns \/ MetaReturns \/ TForReturns \/ CloseReturns \/ CResumes
  PROVE  LoopInv'
<1>1. nat' = Front(nat) /\ rep' = rep /\ \E kind \in Helper : Waiting(kind)
  BY DEF SlowReturns, MetaReturns, TForReturns, CloseReturns, CResumes, ToBody, Helper
<1>2. HasCIs(stk)
  BY FitParts DEF LoopInv
<1>3. Kept(stk, stk')
  <2>1. CASE SlowReturns
    <3>1. Same(stk, stk')
      BY <1>2, <2>1, PushedSame, Writes DEF SlowReturns
    <3> QED
      BY <1>2, <3>1, SameTwice
  <2>2. CASE MetaReturns
    <3> DEFINE m == Copy(stk, stk.top - 1, 1, Base(stk) + Last(nat).a)
    <3>1. stk' = Claimed(m)
      BY <2>2 DEF MetaReturns
    <3>2. Same(stk, m) /\ HasCIs(m)
      BY <1>2, Writes, SameTwice
    <3> HIDE DEF m
    <3>3. Same(stk, stk')
      BY <1>2, <3>1, <3>2, Writes, SameTwice
    <3> QED
      BY <1>2, <3>3, SameTwice
  <2>3. CASE TForReturns
    BY <1>2, <2>3, PushedSame, SameTwice DEF TForReturns
  <2>4. CASE CloseReturns
    BY <1>2, <2>4, Writes, SameTwice DEF CloseReturns
  <2>5. CASE CResumes
    <3> DEFINE ci == [Last(stk.cis) EXCEPT !.top = Max({@, stk.top})]
    <3>1. stk' = SetCI(stk, ci) /\ Same(stk, stk)
      BY <2>5, PushedSame DEF CResumes
    <3>2. "drive" \in DOMAIN ci /\ ci.drive = Last(stk.cis).drive /\ ci.drive \in BOOLEAN
      BY <1>2, Current
    <3> HIDE DEF ci
    <3> QED
      BY <1>2, <3>1, <3>2, Sets
  <2> QED
    BY <2>1, <2>2, <2>3, <2>4, <2>5
<1>4. Fit(nat', stk') /\ rep' = FALSE
  BY <1>1, <1>3, HelperGoesOn
<1> QED
  BY <1>4, Asked

(* The CallInfo of a call goes when the call does.                         *)
LEMMA CallEnds ==
  ASSUME LoopInv, nat[Len(nat)].kind \in {"rtcall", "ccall", "cfn"},
         Len(nat) > 1 \/ nat[Len(nat)].kind # "cfn", NEW g, Lowered(stk, g)
  PROVE  Fit(Front(nat), g) /\ rep = FALSE
<1>1. /\ HasCIs(stk) /\ Fit(nat, stk) /\ Ordered(nat) /\ rep = FALSE
      /\ Shorter(nat, Front(nat)) /\ Len(nat) \in Nat \ {0}
  BY TopReturns
<1>2. Len(nat) > 1
  BY <1>1 DEF Ordered
<1> QED
  BY <1>1, <1>2, CallPopped DEF Fit, Lowered

(* The tails of the calls that pop the CallInfo, and C functions.          *)
LEMMA CallsReturn ==
  ASSUME LoopInv,
         RtCallReturns \/ CcallReturns \/ \E n : CReturn(n)
  PROVE  LoopInv'
<1>1. HasCIs(stk)
  BY FitParts DEF LoopInv
<1>2. CASE RtCallReturns
  <2> DEFINE r == Last(nat)
             func == stk.cis[Len(stk.cis) - 1].func + 1 + r.a
             n == stk.top - Last(stk.cis).func
             vs == Adjusted(Read(stk, Last(stk.cis).func, n), r.n)
             p == Put(stk, func, vs)
             t == Topped(p, func + Len(vs))
             m == [t EXCEPT !.cis = Front(@)]
  <2>1. /\ stk' = (IF r.n = MULTRET THEN m ELSE Claimed(m))
        /\ nat' = Front(nat) /\ rep' = rep /\ nat[Len(nat)].kind = "rtcall"
    BY <1>2 DEF RtCallReturns, ToBody, Waiting, Last
  <2>2. Same(stk, p) /\ HasCIs(p)
    BY <1>1, Writes, SameTwice
  <2> HIDE DEF p, func, vs
  <2>3. Same(stk, t)
    BY <1>1, <2>2, Writes, SameTwice
  <2> HIDE DEF t
  <2>4. Lowered(stk, m)
    BY <1>1, <2>3, Lowers
  <2> HIDE DEF m
  <2>5. Fit(Front(nat), m) /\ rep = FALSE
    BY <2>1, <2>4, CallEnds
  <2>6. Fit(Front(nat), Claimed(m))
    BY <2>5, FitParts, Writes, FitSame
  <2> QED
    BY <2>1, <2>5, <2>6, Asked
<1>3. CASE CcallReturns
  <2>1. stk' = Poscall(stk, rax) /\ nat' = Front(nat) /\ rep' = rep /\ nat[Len(nat)].kind = "ccall"
    BY <1>3 DEF CcallReturns, Waiting, Last
  <2>2. Lowered(stk, stk')
    BY <1>1, <2>1, Poscalls
  <2> QED
    BY <2>1, <2>2, CallEnds, Asked
<1>4. ASSUME NEW n, CReturn(n) PROVE LoopInv'
  <2> DEFINE vs == IF FnInfo[Frame.fn].kind = "c" THEN Tokens(n) ELSE SubSeq(Frame.regs, Frame.open + 1, Live)
             p == Put(stk, stk.top, vs)
             m == IF FnInfo[Frame.fn].kind = "c" THEN Topped(p, stk.top + n) ELSE stk
  <2>1. /\ stk' \in {Poscall(m, n), Poscall(Collected(m), n)}
        /\ nat' = Front(nat) /\ rep' = rep /\ nat[Len(nat)].kind = "cfn" /\ Len(nat) > 1
    BY <1>4 DEF CReturn, Runs, Last
  <2>2. Same(stk, p) /\ HasCIs(p)
    BY <1>1, Writes, SameTwice
  <2> HIDE DEF p, vs
  <2>3. Same(stk, m) /\ HasCIs(m)
    <3>1. Same(stk, Topped(p, stk.top + n))
      BY <1>1, <2>2, Writes, SameTwice
    <3>2. Same(stk, stk)
      BY <1>1 DEF Same, HasCIs
    <3> QED
      BY <1>1, <3>1, <3>2, SameTwice
  <2> HIDE DEF m
  <2>4. Same(stk, Collected(m)) /\ HasCIs(Collected(m))
    BY <1>1, <2>3, Writes, SameTwice
  <2>5. Lowered(m, Poscall(m, n)) /\ Lowered(Collected(m), Poscall(Collected(m), n))
    BY <2>3, <2>4, Poscalls
  <2>6. Lowered(stk, stk')
    BY <2>1, <2>3, <2>4, <2>5 DEF Lowered, Same
  <2> QED
    BY <2>1, <2>6, CallEnds, Asked
<1> QED
  BY <1>2, <1>3, <1>4

(* A C function that ran in the place of a native one leaves.              *)
LEMMA CTailEnds ==
  ASSUME LoopInv, CTailReturns
  PROVE  LoopInv'
<1> DEFINE r == Last(nat)
           ci == Last(stk.cis)
           dst == ci.func - r.n
           p == Copy(stk, Base(stk) + r.a, rax, dst)
           new == [ci EXCEPT !.func = dst]
           s == SetCI(p, new)
<1>1. /\ stk' = Topped(s, dst + rax) /\ nat' = Front(nat) /\ rep' = rep
      /\ nat[Len(nat)].kind = "ctail"
  BY DEF CTailReturns, Waiting, Last
<1>2. HasCIs(stk) /\ rep = FALSE
  BY <1>1, FitParts DEF LoopInv
<1>3. "drive" \in DOMAIN new /\ new.drive = ci.drive /\ ci.drive \in BOOLEAN
  BY <1>2, Current
<1>4. Same(stk, p)
  BY <1>2, Writes
<1> HIDE DEF p, new
<1>5. Kept(stk, s) /\ HasCIs(s)
  BY <1>2, <1>3, <1>4, Sets
<1> HIDE DEF s
<1>6. Same(s, stk')
  BY <1>1, <1>5, Writes
<1>7. Kept(stk, stk')
  BY <1>5, <1>6 DEF Kept, Same
<1>8. Fit(nat', stk')
  BY <1>1, <1>7, Leaves DEF Fit, Kept
<1> QED
  BY <1>1, <1>2, <1>8, Asked

(* A drive loop on top has marked the CallInfo it runs.                    *)
LEMMA DriveMarked ==
  ASSUME NEW n, NEW c, Towers(n, c), n[Len(n)].kind = "drive"
  PROVE  c[Len(c)].drive = TRUE
<1>1. PICK own : Tower(n, c, own)
  BY DEF Towers
<1>2. /\ Infos(c) /\ Pending(n, c, own) /\ Marks(n, c, own)
      /\ Len(n) \in Nat \ {0} /\ Len(c) \in Nat \ {0}
  BY <1>1, TowerParts
<1>3. own[Len(c)] = Len(n) + 1 /\ Len(c) \in 1..Len(c)
  BY <1>2 DEF Pending, Entry
<1>4. own[Len(c)] > 1 /\ own[Len(c)] - 1 = Len(n)
  BY <1>2, <1>3
<1>5. c[Len(c)].drive /\ c[Len(c)].drive \in BOOLEAN
  BY <1>2, <1>3, <1>4 DEF Marks, Infos
<1> QED
  BY <1>5

(* The drive loop runs the next function of the chain, or is over.         *)
LEMMA DriveGoesOn ==
  ASSUME LoopInv, DriveReturns
  PROVE  LoopInv'
<1> DEFINE ci == [Last(stk.cis) EXCEPT !.drive = rep]
<1>1. /\ rep' = FALSE /\ stk' = SetCI(stk, ci)
      /\ nat' = IF rep THEN Append(nat, Body) ELSE Front(nat)
      /\ nat[Len(nat)].kind = "drive"
  BY DEF DriveReturns, Waiting, Last
<1>2. HasCIs(stk) /\ Fit(nat, stk) /\ IsSeq(nat) /\ Len(nat) \in Nat \ {0} /\ rep \in BOOLEAN
  BY FitParts DEF LoopInv
<1>3. "drive" \in DOMAIN ci /\ ci.drive = rep
  BY <1>2, Current
<1>4. Same(stk, stk)
  BY <1>2 DEF Same, HasCIs
<1> HIDE DEF ci
<1>5. Marked(stk, stk', rep) /\ (rep = Last(stk.cis).drive => Kept(stk, stk'))
  BY <1>1, <1>2, <1>3, <1>4, Sets
<1>6. CASE rep
  <2>1. Kept(stk, stk')
    BY <1>1, <1>2, <1>5, <1>6, DriveMarked DEF Fit, Last
  <2>2. Longer(nat, nat', Body) /\ Body.kind = "body"
    BY <1>1, <1>2, <1>6, AppendLonger DEF Act, Body
  <2>3. Fit(nat', stk')
    BY <1>1, <1>2, <2>1, <2>2, HolderPushed DEF Fit, Kept, Entry
  <2> QED
    BY <1>1, <2>3, Asked
<1>7. CASE ~rep
  <2>1. Shorter(nat, nat')
    BY <1>1, <1>2, <1>7, FrontShorter
  <2>2. Fit(nat', stk')
    BY <1>1, <1>2, <1>5, <1>7, <2>1, DrivePopped DEF Fit, Marked
  <2> QED
    BY <1>1, <2>2, Asked
<1> QED
  BY <1>6, <1>7

(* There is an innermost pcall where there is one.                         *)
LEMMA Innermost ==
  ASSUME NEW N \in Nat, NEW S \in SUBSET (1..N), S # {}
  PROVE  Max(S) \in S
<1> DEFINE T == {N - i : i \in S}
<1>1. T \in SUBSET (0..N) /\ T # {}
  OBVIOUS
<1>2. \E x \in T : \A y \in T : x <= y
  <2>1. T \in SUBSET Nat /\ IsFiniteSet(T)
    <3>1. IsFiniteSet(0..N)
      BY FS_Interval
    <3>2. T \in SUBSET Nat
      OBVIOUS
    <3> HIDE DEF T
    <3> QED
      BY <1>1, <3>1, <3>2, FS_Subset
  <2> HIDE DEF T
  <2> QED
    BY <1>1, <2>1, LeastOfFinite
<1>3. PICK i \in S : \A j \in S : N - i <= N - j
  BY <1>2
<1>4. \A j \in S : i >= j
  BY <1>3
<1> QED
  BY <1>4 DEF Max

(* An error leaves what the innermost pcall was called from.               *)
LEMMA ThrowUnwinds ==
  ASSUME LoopInv, Throw
  PROVE  LoopInv'
<1> DEFINE guards == {i \in DOMAIN nat : nat[i].kind = "pcall"}
           g == Max(guards)
           r == nat[g]
           cut == [stk EXCEPT !.cis = SubSeq(@, 1, r.a)]
           p == Put(cut, r.n, <<oops, no, oops>>)
<1>1. /\ Runs("body") /\ rep' = rep /\ guards # {}
      /\ stk' = Topped(p, r.n + 3) /\ nat' = SubSeq(nat, 1, g - 1)
  BY DEF Throw, Executes
<1>2. HasCIs(stk) /\ Fit(nat, stk) /\ IsSeq(nat) /\ Len(nat) \in Nat /\ rep = FALSE
  BY <1>1, BodyRuns
<1>3. g \in DOMAIN nat /\ nat[g].kind = "pcall"
  <2>1. DOMAIN nat = 1..Len(nat)
    BY <1>2 DEF IsSeq
  <2>2. guards \in SUBSET (1..Len(nat))
    BY <2>1
  <2>3. g \in guards
    <3> HIDE DEF guards
    <3> QED
      BY <1>1, <1>2, <2>2, Innermost
  <2> QED
    BY <2>3
<1> HIDE DEF g, guards
<1>4. Towers(nat', SubSeq(stk.cis, 1, nat[g].a))
  BY <1>1, <1>2, <1>3, Unwound DEF Fit
<1>5. Fit(nat', cut)
  BY <1>2, <1>4 DEF Fit, HasCIs
<1> HIDE DEF cut
<1>6. HasCIs(cut)
  BY <1>5, FitParts
<1>7. Same(cut, p) /\ HasCIs(p)
  BY <1>6, Writes, SameTwice
<1> HIDE DEF p
<1>8. Same(cut, stk')
  BY <1>1, <1>6, <1>7, Writes, SameTwice
<1>9. Fit(nat', stk')
  BY <1>5, <1>8, FitSame
<1> QED
  BY <1>1, <1>2, <1>9, Asked

-----------------------------------------------------------------------------
(* The program.                                                            *)

(* It starts with one C function and its CallInfo.                         *)
LEMMA CallsInitInv == CallsInit => LoopInv
<1> SUFFICES ASSUME CallsInit PROVE LoopInv
  OBVIOUS
<1> DEFINE given == <<prog.start>> \o Tokens(prog.args)
           none == [mem |-> [i \in 0..(prog.last + Extra - 1) |-> nil], top |-> Len(given) + 1,
                    last |-> prog.last, cis |-> <<>>]
           q == PushCI(none, 0, 1 + MinStack, 0)
           ci == [func |-> 0, top |-> 1 + MinStack, n |-> 0, drive |-> FALSE, nextra |-> 0]
           own == [j \in 1..1 |-> 1]
<1>1. rep = FALSE /\ nat = <<CFunction>> /\ stk = Put(q, 0, <<Host>> \o given)
  BY DEF CallsInit
<1>2. "cis" \in DOMAIN stk /\ stk.cis = <<ci>>
  <2>1. "cis" \in DOMAIN none /\ none.cis = <<>>
    OBVIOUS
  <2> HIDE DEF none
  <2>2. "cis" \in DOMAIN q /\ q.cis = Append(<<>>, ci)
    BY <2>1 DEF PushCI
  <2> HIDE DEF q
  <2>3. "cis" \in DOMAIN stk /\ stk.cis = q.cis
    BY <1>1, <2>2 DEF Put
  <2> QED
    BY <2>2, <2>3
<1>3. "drive" \in DOMAIN ci /\ ci.drive = FALSE
  OBVIOUS
<1>4. CFunction.kind = "cfn"
  BY DEF CFunction, Act
<1> HIDE DEF ci
<1>5. IsSeq(stk.cis) /\ Len(stk.cis) = 1 /\ stk.cis[1] = ci
  <2>1. <<ci>> \in Seq({ci})
    OBVIOUS
  <2>2. IsSeq(<<ci>>)
    BY <2>1 DEF IsSeq
  <2>3. Len(<<ci>>) = 1 /\ <<ci>>[1] = ci
    OBVIOUS
  <2> QED
    BY <1>2, <2>2, <2>3
<1>6. IsSeq(nat) /\ Len(nat) = 1 /\ nat[1].kind = "cfn"
  <2>1. <<CFunction>> \in Seq({CFunction})
    OBVIOUS
  <2> QED
    BY <1>1, <1>4, <2>1 DEF IsSeq
<1>7. Ordered(nat) /\ Infos(stk.cis)
  <2>1. \A j \in 1..Len(stk.cis) : stk.cis[j] = ci
    BY <1>5
  <2>2. \A i \in 2..Len(nat) : FALSE
    BY <1>6
  <2>3. Ordered(nat)
    BY <1>6, <2>2 DEF Ordered
  <2>4. \A j \in 1..Len(stk.cis) : "drive" \in DOMAIN stk.cis[j] /\ stk.cis[j].drive \in BOOLEAN
    BY <1>3, <2>1
  <2>5. Infos(stk.cis)
    BY <1>5, <2>4 DEF Infos
  <2> QED
    BY <2>3, <2>5
<1>8. Places(nat, stk.cis, own) /\ own[1] = 1
  BY <1>5, <1>6 DEF Places
<1> HIDE DEF own
<1>9. Held(nat, stk.cis, own) /\ Pending(nat, stk.cis, own)
  BY <1>5, <1>6, <1>8 DEF Held, Pending, Holder, Entry
<1>10. Marks(nat, stk.cis, own) /\ Guards(nat, stk.cis, own)
  BY <1>3, <1>5, <1>6, <1>8 DEF Marks, Guards
<1>11. Fit(nat, stk)
  BY <1>2, <1>7, <1>8, <1>9, <1>10 DEF Fit, Towers, Tower
<1> QED
  BY <1>1, <1>11 DEF LoopInv

(* Every step keeps the two stacks together.                               *)
LEMMA CallsNextInv == LoopInv /\ [CallsNext]_callsVars => LoopInv'
<1> SUFFICES ASSUME LoopInv, [CallsNext]_callsVars PROVE LoopInv'
  OBVIOUS
<1>1. CASE Instruction
  <2>1. \/ VarargPrep \/ Load \/ NewTable \/ SetList \/ Close \/ TailOpen \/ Throw
        \/ \E fn, nargs, n : Call(fn, nargs, n)
        \/ \E fn : OpenVararg(fn)
        \/ \E fn, g : OpenCall(fn, g)
        \/ \E n : CallOpen(n)
        \/ \E n : Vararg(n)
        \/ \E n : TForCall(n)
        \/ \E n : Return(n)
        \/ \E fn, nargs : TailCall(fn, nargs)
        \/ \E r : Meta(r)
    BY <1>1, Zenon DEF Instruction
  <2> QED
    BY <2>1, OwnRegisters, RunsCloser, TailCallActions, ThrowUnwinds, CallsAnother,
       RunsIterator, Returns, RunsMetamethod
<1>2. CASE Continuation
  BY <1>2, CallsReturn, HelpersReturn, CTailEnds, DriveGoesOn DEF Continuation
<1>3. CASE CCalls
  BY <1>3, FunctionCalls
<1>4. CASE \E n \in Counts \cup {Live - Frame.open} : CReturn(n)
  BY <1>4, CallsReturn
<1>5. CASE Ended \/ UNCHANGED callsVars
  BY <1>5 DEF Ended, callsVars, LoopInv, Fit
<1> QED
  BY <1>1, <1>2, <1>3, <1>4, <1>5 DEF CallsNext

(* The machine stack and the CallInfos belong together all along.          *)
LEMMA CallsSpecInv == CallsSpec => []LoopInv
BY CallsInitInv, CallsNextInv, PTL DEF CallsSpec

(* A drive loop is never right on top of another, and a request to go on   *)
(* is up only on the way back to the loop that is to take it: Rt_TailCall  *)
(* of jit/runtime.c asks for it where the mark of its CallInfo is up, and  *)
(* the mark is up exactly while that loop is below.                        *)
THEOREM SpecOneLoopPerChain == CallsSpec => []OneLoopPerChain
<1>1. LoopInv => OneLoopPerChain
  <2> SUFFICES ASSUME LoopInv PROVE OneLoopPerChain
    OBVIOUS
  <2>1. Fit(nat, stk) /\ HasCIs(stk) /\ Ordered(nat) /\ Len(nat) \in Nat \ {0} /\ Last(nat) = nat[Len(nat)]
    BY FitParts DEF LoopInv
  <2>2. ASSUME NEW i \in 1..(Len(nat) - 1), nat[i].kind = "drive"
        PROVE  nat[i + 1].kind # "drive"
    <3>1. i + 1 \in 2..Len(nat) /\ (i + 1) - 1 = i
      BY <2>1
    <3>2. nat[i].kind \in Under(nat[i + 1].kind)
      BY <2>1, <3>1 DEF Ordered
    <3> QED
      BY <2>2, <3>2 DEF Under
  <2>3. ASSUME rep PROVE Last(nat).kind = "drive" /\ Last(stk.cis).drive
    BY <2>1, <2>3, DriveMarked DEF LoopInv, Fit, Last
  <2> QED
    BY <2>2, <2>3 DEF OneLoopPerChain
<1> QED
  BY <1>1, CallsSpecInv, PTL

-----------------------------------------------------------------------------
(* Sequences of anything, by their elements.                               *)

(* A sequence is a function on 1..Len.                                     *)
LEMMA SeqFacts ==
  ASSUME NEW s, IsSeq(s)
  PROVE  Len(s) \in Nat /\ DOMAIN s = 1..Len(s) /\ s = [i \in 1..Len(s) |-> s[i]]
<1>1. PICK S : s \in Seq(S)
  BY DEF IsSeq
<1> QED
  BY <1>1

(* Sequences with the same elements are the same.                          *)
LEMMA SameElements ==
  ASSUME NEW s, IsSeq(s), NEW t, IsSeq(t), Len(s) = Len(t), \A i \in 1..Len(s) : s[i] = t[i]
  PROVE  s = t
<1>1. s = [i \in 1..Len(s) |-> s[i]] /\ t = [i \in 1..Len(t) |-> t[i]]
  BY SeqFacts
<1> QED
  BY <1>1

(* Two sequences one after the other.                                      *)
LEMMA Joined ==
  ASSUME NEW s, IsSeq(s), NEW t, IsSeq(t)
  PROVE  /\ IsSeq(s \o t) /\ Len(s \o t) = Len(s) + Len(t)
         /\ \A i \in 1..Len(s) : (s \o t)[i] = s[i]
         /\ \A i \in 1..Len(t) : (s \o t)[Len(s) + i] = t[i]
         /\ \A i \in 1..(Len(s) + Len(t)) : i > Len(s) => (s \o t)[i] = t[i - Len(s)]
         /\ Len(t) = 0 => s \o t = s
<1>1. PICK S : s \in Seq(S)
  BY DEF IsSeq
<1>2. PICK T : t \in Seq(T)
  BY DEF IsSeq
<1>3. s \in Seq(S \cup T) /\ t \in Seq(S \cup T)
  BY <1>1, <1>2, SeqMonotonic
<1>4. Len(s) \in Nat /\ Len(t) \in Nat
  BY <1>1, <1>2
<1>5. /\ s \o t \in Seq(S \cup T) /\ Len(s \o t) = Len(s) + Len(t)
      /\ \A i \in 1..(Len(s) + Len(t)) : (s \o t)[i] = IF i <= Len(s) THEN s[i] ELSE t[i - Len(s)]
  BY <1>3, ConcatProperties
<1>6. IsSeq(s \o t)
  BY <1>5 DEF IsSeq
<1>7. \A i \in 1..Len(s) : (s \o t)[i] = s[i]
  BY <1>4, <1>5
<1>8. \A i \in 1..Len(t) : (s \o t)[Len(s) + i] = t[i]
  <2> SUFFICES ASSUME NEW i \in 1..Len(t) PROVE (s \o t)[Len(s) + i] = t[i]
    OBVIOUS
  <2>1. Len(s) + i \in 1..(Len(s) + Len(t)) /\ ~(Len(s) + i <= Len(s)) /\ Len(s) + i - Len(s) = i
    BY <1>4
  <2> QED
    BY <1>5, <2>1
<1>9. \A i \in 1..(Len(s) + Len(t)) : i > Len(s) => (s \o t)[i] = t[i - Len(s)]
  BY <1>4, <1>5
<1>10. ASSUME Len(t) = 0 PROVE s \o t = s
  BY <1>4, <1>5, <1>6, <1>7, <1>10, SameElements
<1> QED
  BY <1>5, <1>6, <1>7, <1>8, <1>9, <1>10

(* A part of a sequence.                                                   *)
LEMMA Part ==
  ASSUME NEW s, IsSeq(s), NEW a \in 1..(Len(s) + 1), NEW b \in (a - 1)..Len(s)
  PROVE  /\ IsSeq(SubSeq(s, a, b)) /\ Len(SubSeq(s, a, b)) = b - a + 1
         /\ \A i \in 1..(b - a + 1) : SubSeq(s, a, b)[i] = s[a + i - 1]
<1>1. PICK S : s \in Seq(S)
  BY DEF IsSeq
<1>2. Len(s) \in Nat /\ a \in Int /\ b \in Int /\ \A i \in a..b : s[i] \in S
  BY <1>1
<1>3. /\ SubSeq(s, a, b) \in Seq(S)
      /\ Len(SubSeq(s, a, b)) = (IF a <= b THEN b - a + 1 ELSE 0)
      /\ \A i \in 1..(b - a + 1) : SubSeq(s, a, b)[i] = s[a + i - 1]
  BY <1>2, SubSeqProperties
<1> QED
  BY <1>2, <1>3 DEF IsSeq

(* Nils, tokens, one element.                                              *)
LEMMA NilsSeq ==
  ASSUME NEW n \in Int
  PROVE  /\ IsSeq(Nils(n)) /\ Len(Nils(n)) = (IF n > 0 THEN n ELSE 0)
         /\ \A i \in 1..n : Nils(n)[i] = nil
<1> DEFINE k == IF n > 0 THEN n ELSE 0
<1>1. k \in Nat /\ 1..n = 1..k
  OBVIOUS
<1>2. Nils(n) = [i \in 1..k |-> nil]
  BY <1>1 DEF Nils
<1> HIDE DEF k
<1>3. Nils(n) \in Seq({nil}) /\ Len(Nils(n)) = k
  BY <1>1, <1>2
<1> QED
  BY <1>1, <1>2, <1>3 DEF IsSeq, k

(* The values a program makes.                                             *)
LEMMA TokensSeq ==
  ASSUME NEW n \in Nat, fuel \in Nat
  PROVE  IsSeq(Tokens(n)) /\ Len(Tokens(n)) = n
<1>1. \A j \in 1..n : Token(j) \in Nat
  BY DEF Token
<1>2. Tokens(n) \in Seq(Nat) /\ Len(Tokens(n)) = n
  BY <1>1 DEF Tokens
<1> QED
  BY <1>2 DEF IsSeq

(* Sequences given by their elements.                                      *)
LEMMA Singles ==
  /\ IsSeq(<<>>) /\ Len(<<>>) = 0
  /\ \A e : IsSeq(<<e>>) /\ Len(<<e>>) = 1 /\ <<e>>[1] = e
  /\ \A d, e : IsSeq(<<d, e>>) /\ Len(<<d, e>>) = 2 /\ <<d, e>>[1] = d /\ <<d, e>>[2] = e
<1>1. IsSeq(<<>>) /\ Len(<<>>) = 0
  BY EmptySeq DEF IsSeq
<1>2. ASSUME NEW e PROVE IsSeq(<<e>>) /\ Len(<<e>>) = 1 /\ <<e>>[1] = e
  <2>1. <<e>> \in Seq({e})
    OBVIOUS
  <2> QED
    BY <2>1 DEF IsSeq
<1>3. ASSUME NEW d, NEW e PROVE IsSeq(<<d, e>>) /\ Len(<<d, e>>) = 2 /\ <<d, e>>[1] = d /\ <<d, e>>[2] = e
  <2>1. <<d, e>> \in Seq({d, e})
    OBVIOUS
  <2> QED
    BY <2>1 DEF IsSeq
<1> QED
  BY <1>1, <1>2, <1>3

(* A result list cut or filled to the number wanted.                       *)
LEMMA AdjustedSeq ==
  ASSUME NEW vs, IsSeq(vs), NEW n \in Int, n >= -1
  PROVE  IsSeq(Adjusted(vs, n)) /\ Len(Adjusted(vs, n)) = (IF n = MULTRET THEN Len(vs) ELSE n)
<1>1. CASE n = MULTRET
  BY <1>1 DEF Adjusted
<1>2. CASE n # MULTRET
  <2>1. n \in Nat
    BY <1>2 DEF MULTRET
  <2>2. IsSeq(Nils(n)) /\ Len(Nils(n)) = n
    BY <2>1, NilsSeq
  <2>3. IsSeq(vs \o Nils(n)) /\ Len(vs \o Nils(n)) = Len(vs) + n /\ Len(vs) \in Nat
    BY <2>2, Joined, SeqFacts
  <2>4. 1 \in 1..(Len(vs \o Nils(n)) + 1) /\ n \in (1 - 1)..Len(vs \o Nils(n))
    BY <2>1, <2>3
  <2>5. IsSeq(SubSeq(vs \o Nils(n), 1, n)) /\ Len(SubSeq(vs \o Nils(n), 1, n)) = n - 1 + 1
    BY <2>3, <2>4, Part
  <2> QED
    BY <1>2, <2>1, <2>5 DEF Adjusted
<1> QED
  BY <1>1, <1>2

(* The larger of two numbers.                                              *)
LEMMA MaxOfTwo ==
  ASSUME NEW a \in Int, NEW b \in Int
  PROVE  Max({a, b}) = IF a >= b THEN a ELSE b
<1>1. \E x \in {a, b} : \A y \in {a, b} : x >= y
  OBVIOUS
<1>2. Max({a, b}) \in {a, b} /\ \A y \in {a, b} : Max({a, b}) >= y
  BY <1>1 DEF Max
<1> QED
  BY <1>2

-----------------------------------------------------------------------------
(* The slots of the Lua stack.                                             *)

StackOK(m) ==
  /\ DOMAIN m = {"mem", "top", "last", "cis"} /\ m.top \in Nat /\ m.last \in Nat
  /\ DOMAIN m.mem = 0..(m.last + Extra - 1)

(* The values vs are in the slots from at on.                              *)
InPlace(m, at, vs) ==
  /\ at \in Nat /\ at + Len(vs) <= m.last + Extra
  /\ \A i \in 1..Len(vs) : m.mem[at + i - 1] = vs[i]

(* g has all slots of m, and below b they hold the same.                   *)
Agree(m, g, b) ==
  /\ StackOK(g) /\ m.last <= g.last
  /\ \A i \in 0..(m.last + Extra - 1) : i < b => g.mem[i] = m.mem[i]

(* The headroom behind stack_last.                                         *)
LEMMA ExtraNat == Extra \in Nat /\ Extra >= 3 /\ MinStack \in Nat /\ MinStack >= 3 /\ Slack \in Nat
BY CallsAssumption

(* Agreement is kept by less and by one step more.                         *)
LEMMA AgreeSteps ==
  ASSUME NEW m, StackOK(m)
  PROVE  /\ \A b : Agree(m, m, b)
         /\ \A g, b : \A d \in Int : b \in Int /\ Agree(m, g, b) /\ d <= b => Agree(m, g, d)
         /\ \A g, h, b : b \in Int /\ Agree(m, g, b) /\ Agree(g, h, b) => Agree(m, h, b)
<1>1. m.last \in Nat /\ Extra \in Nat
  BY ExtraNat DEF StackOK
<1>2. \A b : Agree(m, m, b)
  BY <1>1 DEF Agree
<1>3. ASSUME NEW g, NEW b \in Int, NEW d \in Int, Agree(m, g, b), d <= b PROVE Agree(m, g, d)
  BY <1>1, <1>3 DEF Agree
<1>4. ASSUME NEW g, NEW h, NEW b \in Int, Agree(m, g, b), Agree(g, h, b) PROVE Agree(m, h, b)
  <2>1. g.last \in Nat /\ h.last \in Nat /\ m.last <= h.last /\ StackOK(h)
    BY <1>1, <1>4 DEF Agree, StackOK
  <2>2. ASSUME NEW i \in 0..(m.last + Extra - 1), i < b PROVE h.mem[i] = m.mem[i]
    <3>1. i \in 0..(g.last + Extra - 1)
      BY <1>1, <1>4, <2>1 DEF Agree
    <3> QED
      BY <1>4, <2>2, <3>1 DEF Agree
  <2> QED
    BY <2>1, <2>2 DEF Agree
<1> QED
  BY <1>2, <1>3, <1>4

(* What is in place below b stays.                                         *)
LEMMA StaysInPlace ==
  ASSUME NEW m, StackOK(m), NEW g, NEW b \in Int, Agree(m, g, b),
         NEW at, NEW vs, IsSeq(vs), InPlace(m, at, vs), at + Len(vs) <= b
  PROVE  InPlace(g, at, vs)
<1>1. m.last \in Nat /\ g.last \in Nat /\ Extra \in Nat /\ Len(vs) \in Nat /\ at \in Nat
  BY ExtraNat, SeqFacts DEF StackOK, Agree, InPlace
<1>2. ASSUME NEW i \in 1..Len(vs) PROVE g.mem[at + i - 1] = vs[i]
  <2>1. at + i - 1 \in 0..(m.last + Extra - 1) /\ at + i - 1 < b
    BY <1>1 DEF InPlace
  <2> QED
    BY <2>1 DEF Agree, InPlace
<1> QED
  BY <1>1, <1>2 DEF InPlace, Agree

(* What is in place is what is read.                                       *)
LEMMA ReadInPlace ==
  ASSUME NEW m, StackOK(m), NEW at, NEW vs, IsSeq(vs), InPlace(m, at, vs)
  PROVE  Read(m, at, Len(vs)) = vs /\ \A i \in 1..Len(vs) : At(m, at + i - 1) = vs[i]
<1>1. m.last \in Nat /\ Extra \in Nat /\ Len(vs) \in Nat /\ at \in Nat
  BY ExtraNat, SeqFacts DEF StackOK, InPlace
<1>2. ASSUME NEW i \in 1..Len(vs) PROVE At(m, at + i - 1) = vs[i]
  <2>1. at + i - 1 \in DOMAIN m.mem
    BY <1>1 DEF InPlace, StackOK
  <2> QED
    BY <2>1 DEF InPlace, At
<1>3. Read(m, at, Len(vs)) = [i \in 1..Len(vs) |-> vs[i]]
  BY <1>2 DEF Read
<1> QED
  BY <1>2, <1>3, SeqFacts

(* Two lists one after the other.                                          *)
LEMMA InPlaceJoined ==
  ASSUME NEW m, StackOK(m), NEW at, NEW s, IsSeq(s), NEW t, IsSeq(t)
  PROVE  InPlace(m, at, s \o t) <=> InPlace(m, at, s) /\ InPlace(m, at + Len(s), t)
<1>1. /\ IsSeq(s \o t) /\ Len(s \o t) = Len(s) + Len(t) /\ Len(s) \in Nat /\ Len(t) \in Nat
      /\ \A i \in 1..Len(s) : (s \o t)[i] = s[i]
      /\ \A i \in 1..Len(t) : (s \o t)[Len(s) + i] = t[i]
      /\ \A i \in 1..(Len(s) + Len(t)) : i > Len(s) => (s \o t)[i] = t[i - Len(s)]
  <2>1. Len(s) \in Nat /\ Len(t) \in Nat
    BY SeqFacts
  <2> QED
    BY <2>1, Joined
<1>2. m.last \in Nat /\ Extra \in Nat
  BY ExtraNat DEF StackOK
<1> DEFINE u == s \o t
<1> HIDE DEF u
<1>3. ASSUME InPlace(m, at, u) PROVE InPlace(m, at, s) /\ InPlace(m, at + Len(s), t)
  <2>1. at \in Nat /\ at + (Len(s) + Len(t)) <= m.last + Extra
    BY <1>1, <1>3 DEF InPlace, u
  <2>2. ASSUME NEW i \in 1..Len(s) PROVE m.mem[at + i - 1] = s[i]
    <3>1. i \in 1..Len(u)
      BY <1>1 DEF u
    <3> QED
      BY <1>1, <1>3, <3>1 DEF InPlace, u
  <2>3. ASSUME NEW i \in 1..Len(t) PROVE m.mem[at + Len(s) + i - 1] = t[i]
    <3>1. Len(s) + i \in 1..Len(u) /\ at + (Len(s) + i) - 1 = at + Len(s) + i - 1
      BY <1>1, <2>1 DEF u
    <3> QED
      BY <1>1, <1>3, <3>1 DEF InPlace, u
  <2> QED
    BY <1>1, <1>2, <2>1, <2>2, <2>3 DEF InPlace
<1>4. ASSUME InPlace(m, at, s), InPlace(m, at + Len(s), t) PROVE InPlace(m, at, u)
  <2>1. at \in Nat /\ at + (Len(s) + Len(t)) <= m.last + Extra
    BY <1>1, <1>2, <1>4 DEF InPlace
  <2>2. ASSUME NEW i \in 1..(Len(s) + Len(t)) PROVE m.mem[at + i - 1] = u[i]
    <3>1. CASE i <= Len(s)
      <4>1. i \in 1..Len(s)
        BY <1>1, <3>1
      <4> QED
        BY <1>1, <1>4, <4>1 DEF InPlace, u
    <3>2. CASE i > Len(s)
      <4>1. i - Len(s) \in 1..Len(t) /\ at + Len(s) + (i - Len(s)) - 1 = at + i - 1
        BY <1>1, <2>1, <3>2
      <4>2. m.mem[at + Len(s) + (i - Len(s)) - 1] = t[i - Len(s)]
        BY <1>4, <4>1 DEF InPlace
      <4> QED
        BY <1>1, <3>2, <4>1, <4>2 DEF u
    <3> QED
      BY <1>1, <3>1, <3>2
  <2> QED
    BY <1>1, <2>1, <2>2 DEF InPlace, u
<1> QED
  BY <1>3, <1>4 DEF u

(* A part of a list.                                                       *)
LEMMA InPlacePart ==
  ASSUME NEW m, StackOK(m), NEW at, NEW s, IsSeq(s), InPlace(m, at, s),
         NEW a \in 1..(Len(s) + 1), NEW b \in (a - 1)..Len(s)
  PROVE  InPlace(m, at + a - 1, SubSeq(s, a, b))
<1>1. /\ Len(SubSeq(s, a, b)) = b - a + 1 /\ Len(s) \in Nat
      /\ \A i \in 1..(b - a + 1) : SubSeq(s, a, b)[i] = s[a + i - 1]
  BY Part, SeqFacts
<1>2. m.last \in Nat /\ Extra \in Nat /\ at \in Nat
  BY ExtraNat DEF StackOK, InPlace
<1>3. ASSUME NEW i \in 1..(b - a + 1) PROVE m.mem[(at + a - 1) + i - 1] = SubSeq(s, a, b)[i]
  <2>1. a + i - 1 \in 1..Len(s) /\ (at + a - 1) + i - 1 = at + (a + i - 1) - 1
    BY <1>1, <1>2
  <2>2. m.mem[at + (a + i - 1) - 1] = s[a + i - 1]
    BY <2>1 DEF InPlace
  <2> QED
    BY <1>1, <2>1, <2>2
<1> QED
  BY <1>1, <1>2, <1>3 DEF InPlace

-----------------------------------------------------------------------------
(* What the operators on the stack do to its slots.                        *)

(* A list is written where there is room for it.                           *)
LEMMA PutDoes ==
  ASSUME NEW m, StackOK(m), NEW at \in Nat, NEW vs, IsSeq(vs), at + Len(vs) <= m.last + Extra
  PROVE  /\ StackOK(Put(m, at, vs)) /\ Put(m, at, vs).top = m.top
         /\ Put(m, at, vs).last = m.last /\ Put(m, at, vs).cis = m.cis
         /\ InPlace(Put(m, at, vs), at, vs) /\ Agree(m, Put(m, at, vs), at)
         /\ \A i \in 0..(m.last + Extra - 1) :
              i \notin at..(at + Len(vs) - 1) => Put(m, at, vs).mem[i] = m.mem[i]
<1> DEFINE g == Put(m, at, vs)
           mem == [i \in DOMAIN m.mem |-> IF i \in at..(at + Len(vs) - 1) THEN vs[i - at + 1] ELSE m.mem[i]]
<1>1. g = [m EXCEPT !.mem = mem]
  BY DEF Put
<1>2. m.last \in Nat /\ Extra \in Nat /\ Len(vs) \in Nat /\ DOMAIN m.mem = 0..(m.last + Extra - 1)
  BY ExtraNat, SeqFacts DEF StackOK
<1>3. DOMAIN mem = 0..(m.last + Extra - 1)
  BY <1>2
<1>4. \A i \in 0..(m.last + Extra - 1) :
        mem[i] = IF i \in at..(at + Len(vs) - 1) THEN vs[i - at + 1] ELSE m.mem[i]
  BY <1>2
<1> HIDE DEF mem
<1>5. g.mem = mem /\ g.top = m.top /\ g.last = m.last /\ g.cis = m.cis /\ DOMAIN g = DOMAIN m
  BY <1>1 DEF StackOK
<1> HIDE DEF g
<1>6. StackOK(g)
  BY <1>3, <1>5 DEF StackOK
<1>7. ASSUME NEW i \in 1..Len(vs) PROVE g.mem[at + i - 1] = vs[i]
  <2>1. at + i - 1 \in 0..(m.last + Extra - 1) /\ at + i - 1 \in at..(at + Len(vs) - 1)
        /\ at + i - 1 - at + 1 = i
    BY <1>2
  <2> QED
    BY <1>4, <1>5, <2>1
<1>8. InPlace(g, at, vs)
  BY <1>5, <1>7 DEF InPlace
<1>9. \A i \in 0..(m.last + Extra - 1) : i \notin at..(at + Len(vs) - 1) => g.mem[i] = m.mem[i]
  BY <1>4, <1>5
<1>10. Agree(m, g, at)
  <2>1. \A i \in 0..(m.last + Extra - 1) : i < at => i \notin at..(at + Len(vs) - 1)
    BY <1>2
  <2>2. m.last <= g.last
    BY <1>2, <1>5
  <2> QED
    BY <1>6, <1>9, <2>1, <2>2 DEF Agree
<1> QED
  BY <1>5, <1>6, <1>8, <1>9, <1>10 DEF g

(* What stays in place where a list is written elsewhere.                  *)
LEMMA PutElsewhere ==
  ASSUME NEW m, StackOK(m), NEW at \in Nat, NEW vs, IsSeq(vs), at + Len(vs) <= m.last + Extra,
         NEW b, NEW ws, IsSeq(ws), InPlace(m, b, ws), b + Len(ws) <= at \/ at + Len(vs) <= b
  PROVE  InPlace(Put(m, at, vs), b, ws)
<1>1. m.last \in Nat /\ Extra \in Nat /\ Len(vs) \in Nat /\ Len(ws) \in Nat /\ b \in Nat
  BY ExtraNat, SeqFacts DEF StackOK, InPlace
<1>2. Put(m, at, vs).last = m.last /\ \A i \in 0..(m.last + Extra - 1) :
              i \notin at..(at + Len(vs) - 1) => Put(m, at, vs).mem[i] = m.mem[i]
  BY PutDoes
<1>3. ASSUME NEW i \in 1..Len(ws) PROVE Put(m, at, vs).mem[b + i - 1] = ws[i]
  <2>1. b + Len(ws) <= m.last + Extra /\ m.mem[b + i - 1] = ws[i]
    BY DEF InPlace
  <2>2. b + i - 1 \in 0..(m.last + Extra - 1)
    BY <1>1, <2>1
  <2>3. b + i - 1 \notin at..(at + Len(vs) - 1)
    BY <1>1
  <2> QED
    BY <1>2, <2>1, <2>2, <2>3
<1> QED
  BY <1>1, <1>2, <1>3 DEF InPlace

(* The same slots: what is in place is so in both.                         *)
SameSlots(m, g) == StackOK(g) /\ g.mem = m.mem /\ g.last = m.last
(* Whatever changes no slot.                                               *)
LEMMA SlotsKept ==
  ASSUME NEW m, StackOK(m), NEW g, SameSlots(m, g)
  PROVE  /\ \A b : Agree(m, g, b)
         /\ \A at, vs : InPlace(m, at, vs) => InPlace(g, at, vs)
<1>1. m.last \in Nat
  BY DEF StackOK
<1> QED
  BY <1>1 DEF SameSlots, Agree, InPlace

(* Moving the top or changing the CallInfos leaves the slots alone.        *)
LEMMA ToppedDoes ==
  ASSUME NEW m, StackOK(m), NEW t \in Nat
  PROVE  SameSlots(m, Topped(m, t)) /\ Topped(m, t).top = t /\ Topped(m, t).cis = m.cis
BY DEF Topped, StackOK, SameSlots
(* So does another list of CallInfos.                                      *)
LEMMA CIsDone ==
  ASSUME NEW m, StackOK(m), NEW c
  PROVE  /\ SameSlots(m, [m EXCEPT !.cis = c])
         /\ [m EXCEPT !.cis = c].top = m.top /\ [m EXCEPT !.cis = c].cis = c
BY DEF StackOK, SameSlots
(* A new CallInfo.                                                         *)
LEMMA PushCIDoes ==
  ASSUME NEW m, StackOK(m), NEW func, NEW top, NEW n
  PROVE  /\ SameSlots(m, PushCI(m, func, top, n)) /\ PushCI(m, func, top, n).top = m.top
         /\ PushCI(m, func, top, n).cis =
              Append(m.cis, [func |-> func, top |-> top, n |-> n, drive |-> FALSE, nextra |-> 0])
BY DEF StackOK, SameSlots, PushCI
(* A changed one.                                                          *)
LEMMA SetCIDoes ==
  ASSUME NEW m, StackOK(m), NEW ci
  PROVE  /\ SameSlots(m, SetCI(m, ci)) /\ SetCI(m, ci).top = m.top
         /\ SetCI(m, ci).cis = Append(Front(m.cis), ci)
BY DEF StackOK, SameSlots, SetCI

(* The collector spares what is below the top.                             *)
LEMMA CollectedDoes ==
  ASSUME NEW m, StackOK(m)
  PROVE  /\ StackOK(Collected(m)) /\ Collected(m).top = m.top /\ Collected(m).last = m.last
         /\ Collected(m).cis = m.cis /\ Agree(m, Collected(m), m.top)
<1> DEFINE mem == [i \in DOMAIN m.mem |-> IF i >= m.top THEN nil ELSE m.mem[i]]
           g == Collected(m)
<1>1. g = [m EXCEPT !.mem = mem]
  BY DEF Collected
<1>2. DOMAIN m.mem = 0..(m.last + Extra - 1) /\ m.top \in Nat /\ m.last \in Nat
  BY DEF StackOK
<1>3. DOMAIN mem = 0..(m.last + Extra - 1) /\ \A i \in 0..(m.last + Extra - 1) : i < m.top => mem[i] = m.mem[i]
  BY <1>2
<1> HIDE DEF mem
<1>4. g.mem = mem /\ g.top = m.top /\ g.last = m.last /\ g.cis = m.cis /\ DOMAIN g = DOMAIN m
  BY <1>1 DEF StackOK
<1> HIDE DEF g
<1>5. StackOK(g)
  BY <1>3, <1>4 DEF StackOK
<1>6. Agree(m, g, m.top)
  <2>1. m.last <= g.last
    BY <1>2, <1>4
  <2> QED
    BY <1>3, <1>4, <1>5, <2>1 DEF Agree
<1> QED
  BY <1>4, <1>5, <1>6 DEF g

(* A growth keeps every slot.                                              *)
LEMMA GrownDoes ==
  ASSUME NEW m, StackOK(m), NEW n \in Int
  PROVE  /\ StackOK(Grown(m, n)) /\ Grown(m, n).top = m.top /\ Grown(m, n).cis = m.cis
         /\ Grown(m, n).last >= m.top + n /\ \A b : Agree(m, Grown(m, n), b)
<1> DEFINE size == Max({2 * m.last, m.top + n})
           mem == [i \in 0..(size + Extra - 1) |-> IF i \in DOMAIN m.mem THEN m.mem[i] ELSE nil]
           g == Grown(m, n)
<1>1. DOMAIN m.mem = 0..(m.last + Extra - 1) /\ m.top \in Nat /\ m.last \in Nat /\ Extra \in Nat
  BY ExtraNat DEF StackOK
<1>2. size \in Nat /\ size >= m.last /\ size >= m.top + n
  <2>1. 2 * m.last \in Nat /\ m.top + n \in Int /\ 2 * m.last >= m.last
    BY <1>1
  <2>2. size = IF 2 * m.last >= m.top + n THEN 2 * m.last ELSE m.top + n
    BY <2>1, MaxOfTwo
  <2> HIDE DEF size
  <2> QED
    BY <1>1, <2>1, <2>2
<1>3. g = [[m EXCEPT !.last = size] EXCEPT !.mem = mem]
  BY DEF Grown, StackOK
<1> HIDE DEF size
<1>4. DOMAIN mem = 0..(size + Extra - 1) /\ \A i \in 0..(m.last + Extra - 1) : mem[i] = m.mem[i]
  <2>1. \A i \in 0..(m.last + Extra - 1) : i \in 0..(size + Extra - 1)
    BY <1>1, <1>2
  <2> QED
    BY <1>1, <2>1
<1> HIDE DEF mem
<1>5. g.mem = mem /\ g.top = m.top /\ g.last = size /\ g.cis = m.cis /\ DOMAIN g = DOMAIN m
  BY <1>3 DEF StackOK
<1> HIDE DEF g
<1>6. StackOK(g)
  BY <1>1, <1>2, <1>4, <1>5 DEF StackOK
<1>7. \A b : Agree(m, g, b)
  BY <1>2, <1>4, <1>5, <1>6 DEF Agree
<1> QED
  BY <1>2, <1>5, <1>6, <1>7 DEF g

(* Room is made, perhaps with a collection.                                *)
LEMMA CheckDoes ==
  ASSUME NEW m, StackOK(m), NEW n \in Int
  PROVE  /\ \A g \in CheckStackGC(m, n) :
              StackOK(g) /\ g.top = m.top /\ g.cis = m.cis /\ Agree(m, g, m.top) /\ g.last >= m.top + n
         /\ LET g == CheckStack(m, n)
            IN StackOK(g) /\ g.top = m.top /\ g.cis = m.cis /\ g.last >= m.top + n /\ \A b : Agree(m, g, b)
<1>1. m.top \in Nat /\ m.last \in Nat /\ \A b : Agree(m, m, b)
  BY AgreeSteps DEF StackOK
<1>2. m.last - m.top > n => m.last >= m.top + n
  BY <1>1
<1> DEFINE c == Collected(m)
<1>3. StackOK(c) /\ c.top = m.top /\ c.last = m.last /\ c.cis = m.cis /\ Agree(m, c, m.top)
  BY CollectedDoes
<1> HIDE DEF c
<1>4. /\ StackOK(Grown(c, n)) /\ Grown(c, n).top = m.top /\ Grown(c, n).cis = m.cis
      /\ Grown(c, n).last >= m.top + n /\ Agree(c, Grown(c, n), m.top)
  BY <1>3, GrownDoes
<1>5. Agree(m, Grown(c, n), m.top)
  BY <1>1, <1>3, <1>4, AgreeSteps
<1>6. /\ StackOK(Grown(m, n)) /\ Grown(m, n).top = m.top /\ Grown(m, n).cis = m.cis
      /\ Grown(m, n).last >= m.top + n /\ \A b : Agree(m, Grown(m, n), b)
  BY GrownDoes
<1> QED
  BY <1>1, <1>2, <1>4, <1>5, <1>6 DEF CheckStackGC, CheckStack, c

(* One slot.                                                               *)
Has(m, at, v) == at \in Nat /\ at < m.last + Extra /\ m.mem[at] = v

(* It is a list of one value, and stays like one.                          *)
LEMMA HasOne ==
  ASSUME NEW m, StackOK(m), NEW at, NEW v
  PROVE  /\ InPlace(m, at, <<v>>) <=> Has(m, at, v)
         /\ Has(m, at, v) => At(m, at) = v
         /\ \A g : \A b \in Int : Agree(m, g, b) /\ Has(m, at, v) /\ at < b => Has(g, at, v)
         /\ \A g : SameSlots(m, g) /\ Has(m, at, v) => Has(g, at, v)
         /\ \A s : \A i \in 1..Len(s) : InPlace(m, at, s) /\ IsSeq(s) => Has(m, at + i - 1, s[i])
<1>1. m.last \in Nat /\ Extra \in Nat
  BY ExtraNat DEF StackOK
<1>2. InPlace(m, at, <<v>>) <=> Has(m, at, v)
  <2> DEFINE s == <<v>>
  <2>1. Len(s) = 1 /\ s[1] = v
    BY Singles
  <2> HIDE DEF s
  <2>2. InPlace(m, at, s) <=> Has(m, at, v)
    <3>1. at \in Nat => at + 1 - 1 = at /\ (at + 1 <= m.last + Extra <=> at < m.last + Extra)
      BY <1>1
    <3>2. \A i \in 1..Len(s) : i = 1
      BY <2>1
    <3> QED
      BY <2>1, <3>1, <3>2 DEF InPlace, Has
  <2> QED
    BY <2>2 DEF s
<1>3. ASSUME Has(m, at, v) PROVE At(m, at) = v
  <2>1. at \in DOMAIN m.mem
    BY <1>1, <1>3 DEF StackOK, Has
  <2> QED
    BY <1>3, <2>1 DEF Has, At
<1>4. ASSUME NEW g, NEW b \in Int, Agree(m, g, b), Has(m, at, v), at < b PROVE Has(g, at, v)
  <2>1. at \in 0..(m.last + Extra - 1) /\ g.last \in Nat
    BY <1>1, <1>4 DEF Has, Agree, StackOK
  <2> QED
    BY <1>1, <1>4, <2>1 DEF Has, Agree
<1>5. ASSUME NEW g, SameSlots(m, g), Has(m, at, v) PROVE Has(g, at, v)
  BY <1>5 DEF SameSlots, Has
<1>6. ASSUME NEW s, NEW i \in 1..Len(s), InPlace(m, at, s), IsSeq(s) PROVE Has(m, at + i - 1, s[i])
  <2>1. Len(s) \in Nat /\ at \in Nat /\ at + Len(s) <= m.last + Extra /\ m.mem[at + i - 1] = s[i]
    BY <1>6, SeqFacts DEF InPlace
  <2> QED
    BY <1>1, <2>1 DEF Has
<1> QED
  BY <1>2, <1>3, <1>4, <1>5, <1>6

(* A slot below what agrees.                                               *)
LEMMA HasStays ==
  ASSUME NEW m, StackOK(m), NEW g, NEW b \in Int, Agree(m, g, b), NEW at, NEW v, Has(m, at, v), at < b
  PROVE  Has(g, at, v)
BY HasOne

-----------------------------------------------------------------------------
(* Entering a function.                                                    *)

Room(m) == m.last + Extra - 3
InfoOK(c) ==
  /\ DOMAIN c = {"func", "top", "n", "drive", "nextra"}
  /\ c.func \in Nat /\ c.top \in Nat /\ c.nextra \in Nat /\ c.n \in Int /\ c.n >= -1

(* What a function is: its kind decides whether it has parameters.         *)
LEMMA FnFacts ==
  ASSUME NEW fn \in DOMAIN FnInfo
  PROVE  /\ FnInfo[fn].kind \in {"lua", "c", "calls", "pcall"} /\ FnInfo[fn].params \in Nat
         /\ FnInfo[fn].size \in Nat /\ FnInfo[fn].vararg \in BOOLEAN /\ FnInfo[fn].closes \in BOOLEAN
         /\ IsLua(fn) \in BOOLEAN /\ (IsLua(fn) <=> FnInfo[fn].kind = "lua")
         /\ IsLua(fn) => FnInfo[fn].params <= FnInfo[fn].size
         /\ ~IsLua(fn) => FnInfo[fn].params = 0 /\ ~FnInfo[fn].vararg
BY CallsAssumption DEF IsLua

(* The arguments and nil for every parameter that got none.                *)
Given(fn, args) == args \o Nils(FnInfo[fn].params - Len(args))

(* They are as many as there are of the more.                              *)
LEMMA GivenFacts ==
  ASSUME NEW fn \in DOMAIN FnInfo, NEW args, IsSeq(args)
  PROVE  /\ IsSeq(Given(fn, args)) /\ Len(args) \in Nat
         /\ Len(Given(fn, args)) = (IF Len(args) >= FnInfo[fn].params THEN Len(args) ELSE FnInfo[fn].params)
         /\ \A i \in 1..Len(args) : Given(fn, args)[i] = args[i]
         /\ ~IsLua(fn) => Given(fn, args) = args
<1> DEFINE n == FnInfo[fn].params - Len(args)
<1>1. Len(args) \in Nat /\ FnInfo[fn].params \in Nat /\ n \in Int
  BY SeqFacts, FnFacts
<1>2. IsSeq(Nils(n)) /\ Len(Nils(n)) = IF n > 0 THEN n ELSE 0
  BY <1>1, NilsSeq
<1>3. /\ IsSeq(args \o Nils(n)) /\ Len(args \o Nils(n)) = Len(args) + Len(Nils(n))
      /\ \A i \in 1..Len(args) : (args \o Nils(n))[i] = args[i]
      /\ Len(Nils(n)) = 0 => args \o Nils(n) = args
  BY <1>2, Joined
<1>4. ~IsLua(fn) => ~(n > 0)
  BY <1>1, FnFacts
<1>5. Len(args) + Len(Nils(n)) = IF Len(args) >= FnInfo[fn].params THEN Len(args) ELSE FnInfo[fn].params
  BY <1>1, <1>2
<1> QED
  BY <1>1, <1>2, <1>3, <1>4, <1>5 DEF Given

(* The frame of a function that has just been called.                      *)
LEMMA CalledFields ==
  ASSUME NEW fn, NEW args
  PROVE  /\ DOMAIN Called(fn, args) = {"fn", "regs", "extra", "open", "ready", "closed", "ret", "want"}
         /\ Called(fn, args).fn = fn /\ Called(fn, args).extra = <<>> /\ Called(fn, args).open = -1
         /\ Called(fn, args).ready = ~FnInfo[fn].vararg
         /\ Called(fn, args).closed = FALSE /\ Called(fn, args).ret = FALSE
         /\ Called(fn, args).regs = (IF IsLua(fn) /\ ~FnInfo[fn].vararg
                         THEN SubSeq(Given(fn, args), 1, FnInfo[fn].params) ELSE Given(fn, args))
BY DEF Called, Given

(* Its registers.                                                          *)
LEMMA CalledRegs ==
  ASSUME NEW fn \in DOMAIN FnInfo, NEW args, IsSeq(args)
  PROVE  /\ IsSeq(Called(fn, args).regs) /\ Len(Called(fn, args).regs) \in Nat
         /\ Len(Called(fn, args).regs) <= Len(Given(fn, args))
         /\ FnInfo[fn].params <= Len(Called(fn, args).regs)
         /\ IsLua(fn) /\ ~FnInfo[fn].vararg => Len(Called(fn, args).regs) = FnInfo[fn].params
         /\ ~IsLua(fn) \/ FnInfo[fn].vararg => Called(fn, args).regs = Given(fn, args)
         /\ \A i \in 1..Len(Called(fn, args).regs) : Called(fn, args).regs[i] = Given(fn, args)[i]
<1> DEFINE r == Called(fn, args).regs
           p == FnInfo[fn]
           all == Given(fn, args)
<1>1. r = IF IsLua(fn) /\ ~p.vararg THEN SubSeq(all, 1, p.params) ELSE all
  BY DEF Called, Given
<1>2. IsSeq(all) /\ Len(all) \in Nat /\ p.params \in Nat /\ p.params <= Len(all)
  <2>1. IsSeq(all) /\ Len(args) \in Nat /\ Len(all) = IF Len(args) >= p.params THEN Len(args) ELSE p.params
    BY GivenFacts
  <2>2. p.params \in Nat
    BY FnFacts
  <2> QED
    BY <2>1, <2>2
<1> HIDE DEF all, p, r
<1>3. CASE IsLua(fn) /\ ~p.vararg
  <2>1. 1 \in 1..(Len(all) + 1) /\ p.params \in (1 - 1)..Len(all)
    BY <1>2
  <2>2. /\ IsSeq(SubSeq(all, 1, p.params)) /\ Len(SubSeq(all, 1, p.params)) = p.params - 1 + 1
        /\ \A i \in 1..(p.params - 1 + 1) : SubSeq(all, 1, p.params)[i] = all[1 + i - 1]
    BY <1>2, <2>1, Part
  <2>3. IsSeq(r) /\ Len(r) = p.params /\ \A i \in 1..p.params : r[i] = all[i]
    BY <1>1, <1>2, <1>3, <2>2
  <2> QED
    BY <1>2, <1>3, <2>3 DEF r, p, all
<1>4. CASE ~(IsLua(fn) /\ ~p.vararg)
  <2>1. r = all
    BY <1>1, <1>4
  <2> QED
    BY <1>2, <1>4, <2>1 DEF r, p, all
<1> QED
  BY <1>3, <1>4

(* What is in place from all arguments on is so from the parameters on.    *)
LEMMA RegsInPlace ==
  ASSUME NEW m, StackOK(m), NEW at, NEW fn \in DOMAIN FnInfo, NEW args, IsSeq(args),
         InPlace(m, at, Given(fn, args))
  PROVE  InPlace(m, at, Called(fn, args).regs)
<1> DEFINE r == Called(fn, args).regs
           all == Given(fn, args)
<1>1. /\ IsSeq(r) /\ Len(r) \in Nat /\ Len(r) <= Len(all)
      /\ \A i \in 1..Len(r) : r[i] = all[i]
  BY CalledRegs
<1>2. IsSeq(all) /\ Len(all) \in Nat /\ m.last \in Nat /\ Extra \in Nat
  BY GivenFacts, SeqFacts, ExtraNat DEF StackOK
<1> HIDE DEF r, all
<1>3. InPlace(m, at, all)
  BY DEF all
<1>4. InPlace(m, at, r)
  BY <1>1, <1>2, <1>3 DEF InPlace
<1> QED
  BY <1>4 DEF r

(* The missing parameters are filled with nil.                             *)
LEMMA PaddedDoes ==
  ASSUME NEW m, StackOK(m), NEW func \in Nat, NEW fn \in DOMAIN FnInfo, NEW args, IsSeq(args),
         m.top = func + 1 + Len(args), Has(m, func, fn), InPlace(m, func + 1, args),
         func + 1 + FnInfo[fn].params <= m.last + Extra
  PROVE  /\ StackOK(Padded(m, func, FnInfo[fn])) /\ Padded(m, func, FnInfo[fn]).cis = m.cis
         /\ Padded(m, func, FnInfo[fn]).last = m.last /\ Agree(m, Padded(m, func, FnInfo[fn]), m.top)
         /\ Padded(m, func, FnInfo[fn]).top = func + 1 + Len(Given(fn, args))
         /\ Has(Padded(m, func, FnInfo[fn]), func, fn)
         /\ InPlace(Padded(m, func, FnInfo[fn]), func + 1, Given(fn, args))
<1> DEFINE p == FnInfo[fn]
           n == p.params - Len(args)
           all == Given(fn, args)
           h == Put(m, m.top, Nils(n))
           t == Max({m.top, func + 1 + p.params})
           g == Padded(m, func, p)
<1>1. Len(args) \in Nat /\ p.params \in Nat /\ n \in Int /\ m.top \in Nat /\ m.last \in Nat /\ Extra \in Nat
  BY SeqFacts, FnFacts, ExtraNat DEF StackOK
<1>2. g = Topped(h, t)
  <2>1. m.top - func - 1 = Len(args)
    BY <1>1
  <2> QED
    BY <2>1 DEF Padded
<1>3. IsSeq(Nils(n)) /\ Len(Nils(n)) = IF n > 0 THEN n ELSE 0
  BY <1>1, NilsSeq
<1>4. m.top + Len(Nils(n)) <= m.last + Extra
  <2>1. func + 1 + Len(args) <= m.last + Extra
    BY DEF InPlace
  <2> QED
    BY <1>1, <1>3, <2>1
<1>5. /\ StackOK(h) /\ h.top = m.top /\ h.last = m.last /\ h.cis = m.cis
      /\ InPlace(h, m.top, Nils(n)) /\ Agree(m, h, m.top)
  BY <1>1, <1>3, <1>4, PutDoes
<1>6. IsSeq(all) /\ Len(all) = IF Len(args) >= p.params THEN Len(args) ELSE p.params
  BY GivenFacts
<1>7. t = func + 1 + Len(all) /\ t \in Nat
  <2>1. t = IF m.top >= func + 1 + p.params THEN m.top ELSE func + 1 + p.params
    BY <1>1, MaxOfTwo
  <2>2. Len(all) = (IF Len(args) >= p.params THEN Len(args) ELSE p.params) /\ m.top = func + 1 + Len(args)
    BY <1>6
  <2> HIDE DEF t, all, p, n
  <2> QED
    BY <1>1, <2>1, <2>2
<1> HIDE DEF t, n
<1>8. Has(h, func, fn) /\ InPlace(h, func + 1, args)
  <2>2. func < m.top /\ func + 1 + Len(args) <= m.top
    BY <1>1
  <2> HIDE DEF h
  <2>3. Has(h, func, fn)
    BY <1>1, <1>5, <2>2, HasStays
  <2>4. InPlace(h, func + 1, args)
    BY <1>1, <1>5, <2>2, StaysInPlace
  <2> QED
    BY <2>3, <2>4
<1>9. InPlace(h, func + 1, all)
  <2> HIDE DEF h
  <2>1. InPlace(h, func + 1, args \o Nils(n))
    BY <1>3, <1>5, <1>8, InPlaceJoined
  <2> QED
    BY <2>1 DEF Given, n
<1> HIDE DEF h, all
<1>10. SameSlots(h, Topped(h, t)) /\ Topped(h, t).top = t /\ Topped(h, t).cis = h.cis
  BY <1>5, <1>7, ToppedDoes
<1>11. /\ Has(Topped(h, t), func, fn) /\ InPlace(Topped(h, t), func + 1, all)
       /\ Agree(h, Topped(h, t), m.top)
  BY <1>5, <1>8, <1>9, <1>10, SlotsKept, HasOne
<1>12. Agree(m, g, m.top)
  BY <1>1, <1>2, <1>5, <1>11, AgreeSteps
<1>13. StackOK(g) /\ g.cis = m.cis /\ g.last = m.last /\ g.top = func + 1 + Len(all)
  BY <1>2, <1>5, <1>7, <1>10 DEF SameSlots
<1> QED
  BY <1>2, <1>11, <1>12, <1>13 DEF all

(* The CallInfo of a function that has just been called.                   *)
NewCI(g, ci, func, n, fn) ==
  /\ InfoOK(ci) /\ ci.func = func /\ ci.n = n /\ ci.nextra = 0
  /\ IsLua(fn) => func + 1 + FnInfo[fn].size <= ci.top
  /\ ~IsLua(fn) => g.top + MinStack <= ci.top
  /\ ci.top <= Room(g)

(* The state a call leaves: the callee has its arguments in its registers  *)
(* and room, and nothing below it has changed.                             *)
Entered(m, g, func, n, fn, args) ==
  /\ StackOK(g) /\ Agree(m, g, func)
  /\ \E ci : g.cis = Append(m.cis, ci) /\ NewCI(g, ci, func, n, fn)
  /\ Has(g, func, fn) /\ InPlace(g, func + 1, Called(fn, args).regs)
  /\ g.top <= Room(g)
  /\ ~IsLua(fn) \/ FnInfo[fn].vararg => g.top = func + 1 + Len(Called(fn, args).regs)

(* luaD_precall gives a vararg function just its registers.                *)
Exact(g, func, fn) == FnInfo[fn].vararg => g.cis[Len(g.cis)].top = func + 1 + FnInfo[fn].size

(* Where a call starts: the function and its arguments end at the top.     *)
Ready(m, func, fn, args) ==
  /\ StackOK(m) /\ func \in Nat /\ fn \in DOMAIN FnInfo /\ IsSeq(args)
  /\ m.top = func + 1 + Len(args) /\ Has(m, func, fn) /\ InPlace(m, func + 1, args)

(* What is known of it.                                                    *)
LEMMA NewInfo ==
  ASSUME NEW func \in Nat, NEW top \in Nat, NEW n \in Int, n >= -1
  PROVE  LET ci == [func |-> func, top |-> top, n |-> n, drive |-> FALSE, nextra |-> 0]
         IN InfoOK(ci) /\ ci.func = func /\ ci.n = n /\ ci.nextra = 0 /\ ci.top = top
BY DEF InfoOK

(* A stack that grew, or was collected, is ready all the same.             *)
LEMMA ReadyChecked ==
  ASSUME NEW m, NEW func, NEW fn, NEW args, Ready(m, func, fn, args),
         NEW g, StackOK(g), g.top = m.top, Agree(m, g, m.top)
  PROVE  Ready(g, func, fn, args) /\ Agree(m, g, func)
<1>1. /\ StackOK(m) /\ func \in Nat /\ fn \in DOMAIN FnInfo /\ IsSeq(args)
      /\ m.top = func + 1 + Len(args) /\ Has(m, func, fn) /\ InPlace(m, func + 1, args)
      /\ Len(args) \in Nat /\ m.top \in Nat
  BY SeqFacts DEF Ready, StackOK
<1>2. func < m.top /\ func <= m.top /\ func + 1 + Len(args) <= m.top /\ m.top \in Int /\ func \in Int
  BY <1>1
<1>3. Has(g, func, fn)
  BY <1>1, <1>2, HasStays
<1>4. InPlace(g, func + 1, args)
  BY <1>1, <1>2, StaysInPlace
<1>5. Agree(m, g, func)
  BY <1>1, <1>2, AgreeSteps
<1> QED
  BY <1>1, <1>3, <1>4, <1>5 DEF Ready

(* A new CallInfo, and the missing parameters.                             *)
LEMMA PushedAndPadded ==
  ASSUME NEW g, NEW func, NEW fn, NEW args, Ready(g, func, fn, args), NEW top \in Nat, NEW n,
         func + 1 + FnInfo[fn].params <= g.last + Extra
  PROVE  LET h == Padded(PushCI(g, func, top, n), func, FnInfo[fn])
         IN /\ StackOK(h) /\ h.last = g.last /\ Agree(g, h, func)
            /\ h.cis = Append(g.cis, [func |-> func, top |-> top, n |-> n, drive |-> FALSE, nextra |-> 0])
            /\ h.top = func + 1 + Len(Given(fn, args))
            /\ Has(h, func, fn) /\ InPlace(h, func + 1, Called(fn, args).regs)
<1> DEFINE q == PushCI(g, func, top, n)
           ci == [func |-> func, top |-> top, n |-> n, drive |-> FALSE, nextra |-> 0]
           h == Padded(q, func, FnInfo[fn])
<1>1. /\ StackOK(g) /\ func \in Nat /\ fn \in DOMAIN FnInfo /\ IsSeq(args)
      /\ g.top = func + 1 + Len(args) /\ Has(g, func, fn) /\ InPlace(g, func + 1, args)
      /\ g.top \in Nat /\ Len(args) \in Nat
  BY SeqFacts DEF Ready, StackOK
<1>2. SameSlots(g, q) /\ q.top = g.top /\ q.cis = Append(g.cis, ci)
  BY <1>1, PushCIDoes
<1> HIDE DEF q, ci
<1>3. StackOK(q) /\ q.last = g.last /\ Has(q, func, fn) /\ InPlace(q, func + 1, args) /\ Agree(g, q, g.top)
  BY <1>1, <1>2, SlotsKept, HasOne DEF SameSlots
<1>4. /\ StackOK(h) /\ h.cis = q.cis /\ h.last = q.last /\ Agree(q, h, q.top)
      /\ h.top = func + 1 + Len(Given(fn, args))
      /\ Has(h, func, fn) /\ InPlace(h, func + 1, Given(fn, args))
  BY <1>1, <1>2, <1>3, PaddedDoes
<1> HIDE DEF h
<1>5. InPlace(h, func + 1, Called(fn, args).regs)
  BY <1>1, <1>4, RegsInPlace
<1>6. Agree(g, h, g.top)
  BY <1>1, <1>2, <1>3, <1>4, AgreeSteps
<1>7. Agree(g, h, func)
  <2>1. func <= g.top /\ func \in Int /\ g.top \in Int
    BY <1>1
  <2> QED
    BY <1>1, <1>6, <2>1, AgreeSteps
<1> QED
  BY <1>2, <1>3, <1>4, <1>5, <1>7 DEF h, q, ci

(* luaD_precall of a Lua function.                                         *)
LEMMA PrecallEnters ==
  ASSUME NEW m, NEW func, NEW fn, NEW args, Ready(m, func, fn, args), IsLua(fn),
         NEW n \in Int, n >= -1, NEW h \in Precall(m, func, n)
  PROVE  Entered(m, h, func, n, fn, args) /\ Exact(h, func, fn)
<1> DEFINE p == FnInfo[fn]
           top == func + 1 + p.size
           ci == [func |-> func, top |-> top, n |-> n, drive |-> FALSE, nextra |-> 0]
<1>1. /\ StackOK(m) /\ func \in Nat /\ fn \in DOMAIN FnInfo /\ IsSeq(args)
      /\ m.top = func + 1 + Len(args) /\ Len(args) \in Nat /\ At(m, func) = fn
  BY SeqFacts, HasOne DEF Ready
<1>2. p.params \in Nat /\ p.size \in Nat /\ p.params <= p.size /\ top \in Nat
  BY <1>1, FnFacts
<1>3. PICK g \in CheckStackGC(m, p.size) : h = Padded(PushCI(g, func, top, n), func, p)
  BY <1>1 DEF Precall
<1>4. StackOK(g) /\ g.top = m.top /\ g.cis = m.cis /\ Agree(m, g, m.top) /\ g.last >= m.top + p.size
  <2>1. p.size \in Int
    BY <1>2
  <2> HIDE DEF p
  <2> QED
    BY <1>1, <2>1, CheckDoes
<1>5. Ready(g, func, fn, args) /\ Agree(m, g, func)
  BY <1>4, ReadyChecked
<1>6. g.last \in Nat /\ Extra \in Nat /\ Extra >= 3
  BY <1>4, ExtraNat DEF StackOK
<1>7. func + 1 + p.params <= g.last + Extra
  BY <1>1, <1>2, <1>4, <1>6
<1> HIDE DEF top
<1>8. /\ StackOK(h) /\ h.last = g.last /\ Agree(g, h, func) /\ h.cis = Append(g.cis, ci)
      /\ h.top = func + 1 + Len(Given(fn, args))
      /\ Has(h, func, fn) /\ InPlace(h, func + 1, Called(fn, args).regs)
  BY <1>2, <1>3, <1>5, <1>7, PushedAndPadded
<1>9. Agree(m, h, func)
  <2>1. func \in Int
    BY <1>1
  <2> QED
    BY <1>1, <1>5, <1>8, <2>1, AgreeSteps
<1>10. InfoOK(ci) /\ ci.func = func /\ ci.n = n /\ ci.nextra = 0 /\ ci.top = top
  BY <1>1, <1>2, NewInfo
<1>11. h.top <= Room(h)
  <2>1. Len(Given(fn, args)) = IF Len(args) >= p.params THEN Len(args) ELSE p.params
    BY <1>1, GivenFacts
  <2> HIDE DEF p
  <2> QED
    BY <1>1, <1>2, <1>4, <1>6, <1>8, <2>1, SMTT(30) DEF Room
<1>12. p.vararg => h.top = func + 1 + Len(Called(fn, args).regs)
  BY <1>1, <1>8, CalledRegs
<1>13. top >= func + 1 + FnInfo[fn].size
  BY <1>1, <1>2 DEF top
<1>14. top <= Room(h)
  <2> HIDE DEF p
  <2> QED
    BY <1>1, <1>2, <1>4, <1>6, <1>8, SMTT(30) DEF Room, top
<1> HIDE DEF ci
<1>15. Exact(h, func, fn)
  <2>1. h.cis[Len(h.cis)] = ci
    <3>1. Len(Append(g.cis, ci)) = Len(g.cis) + 1 /\ Append(g.cis, ci)[Len(g.cis) + 1] = ci
      OBVIOUS
    <3> QED
      BY <1>8, <3>1
  <2> QED
    BY <1>10, <2>1 DEF Exact, top
<1> QED
  BY <1>4, <1>8, <1>9, <1>10, <1>11, <1>12, <1>13, <1>14, <1>15 DEF Entered, NewCI, top

(* luaD_precall of a C function.                                           *)
LEMMA PrecallCEnters ==
  ASSUME NEW m, NEW func, NEW fn, NEW args, Ready(m, func, fn, args), ~IsLua(fn),
         NEW n \in Int, n >= -1, NEW h \in PrecallC(m, func, n)
  PROVE  Entered(m, h, func, n, fn, args)
<1> DEFINE top == m.top + MinStack
           ci == [func |-> func, top |-> top, n |-> n, drive |-> FALSE, nextra |-> 0]
<1>1. /\ StackOK(m) /\ func \in Nat /\ fn \in DOMAIN FnInfo /\ IsSeq(args)
      /\ m.top = func + 1 + Len(args) /\ Len(args) \in Nat
  BY SeqFacts DEF Ready
<1>2. MinStack \in Nat /\ Extra \in Nat /\ Extra >= 3 /\ MinStack \in Int /\ top \in Nat
  BY <1>1, ExtraNat
<1>3. PICK g \in CheckStackGC(m, MinStack) : h = PushCI(g, func, g.top + MinStack, n)
  BY DEF PrecallC
<1>4. StackOK(g) /\ g.top = m.top /\ g.cis = m.cis /\ Agree(m, g, m.top) /\ g.last >= m.top + MinStack
  BY <1>1, <1>2, CheckDoes
<1>5. Ready(g, func, fn, args) /\ Agree(m, g, func)
  BY <1>4, ReadyChecked
<1>6. SameSlots(g, h) /\ h.top = m.top /\ h.cis = Append(m.cis, ci)
  BY <1>3, <1>4, PushCIDoes
<1>7. Has(g, func, fn) /\ InPlace(g, func + 1, args) /\ g.last \in Nat
  BY <1>4, <1>5 DEF Ready, StackOK
<1>8. Has(h, func, fn) /\ InPlace(h, func + 1, args) /\ Agree(g, h, func) /\ StackOK(h) /\ h.last = g.last
  BY <1>4, <1>6, <1>7, SlotsKept, HasOne DEF SameSlots
<1>9. Agree(m, h, func)
  <2>1. func \in Int
    BY <1>1
  <2> QED
    BY <1>1, <1>5, <1>8, <2>1, AgreeSteps
<1>10. InfoOK(ci) /\ ci.func = func /\ ci.n = n /\ ci.nextra = 0 /\ ci.top = top
  BY <1>1, <1>2, NewInfo
<1>11. h.top <= Room(h)
  BY <1>1, <1>2, <1>4, <1>6, <1>7, <1>8 DEF Room
<1>12. Called(fn, args).regs = args
  <2>1. Called(fn, args).regs = Given(fn, args)
    BY <1>1, CalledRegs
  <2>2. Given(fn, args) = args
    BY <1>1, GivenFacts
  <2> QED
    BY <2>1, <2>2
<1>13. h.top + MinStack <= ci.top
  BY <1>2, <1>6, <1>10
<1>14. ci.top <= Room(h)
  BY <1>1, <1>2, <1>4, <1>7, <1>8, <1>10 DEF Room
<1> HIDE DEF ci, top
<1> QED
  BY <1>1, <1>6, <1>8, <1>9, <1>10, <1>11, <1>12, <1>13, <1>14 DEF Entered, NewCI

(* Rt_Call of a Lua function.                                              *)
LEMMA NativeEnters ==
  ASSUME NEW m, NEW func, NEW fn, NEW args, Ready(m, func, fn, args), IsLua(fn),
         NEW n \in Int, n >= -1
  PROVE  Entered(m, EnterNative(m, func, n), func, n, fn, args)
<1> DEFINE p == FnInfo[fn]
           need == p.size + Slack
           top == Max({func + 1 + p.size, m.top + need})
           ci == [func |-> func, top |-> top, n |-> n, drive |-> FALSE, nextra |-> 0]
           g == CheckStack(m, need)
           k == Padded(PushCI(g, func, top, n), func, p)
           h == EnterNative(m, func, n)
<1>1. /\ StackOK(m) /\ func \in Nat /\ fn \in DOMAIN FnInfo /\ IsSeq(args)
      /\ m.top = func + 1 + Len(args) /\ Len(args) \in Nat /\ At(m, func) = fn
  BY SeqFacts, HasOne DEF Ready
<1>2. p.params \in Nat /\ p.size \in Nat /\ p.params <= p.size /\ Slack \in Nat /\ need \in Int
      /\ Extra \in Nat /\ Extra >= 3
  BY <1>1, FnFacts, ExtraNat
<1>3. top = m.top + need /\ top \in Nat /\ func + 1 + p.size <= top
  <2>1. top = IF func + 1 + p.size >= m.top + need THEN func + 1 + p.size ELSE m.top + need
    BY <1>1, <1>2, MaxOfTwo
  <2> HIDE DEF top, p
  <2> QED
    BY <1>1, <1>2, <2>1, SMTT(30)
<1>4. h = IF p.vararg THEN k ELSE Claimed(k)
  BY <1>1 DEF EnterNative
<1> HIDE DEF top, h
<1>5. StackOK(g) /\ g.top = m.top /\ g.cis = m.cis /\ Agree(m, g, m.top) /\ g.last >= m.top + need
  BY <1>1, <1>2, CheckDoes
<1> HIDE DEF g
<1>6. Ready(g, func, fn, args) /\ Agree(m, g, func)
  BY <1>5, ReadyChecked
<1>7. g.last \in Nat
  BY <1>5 DEF StackOK
<1>8. func + 1 + p.params <= g.last + Extra
  <2> HIDE DEF p
  <2> QED
    BY <1>1, <1>2, <1>5, <1>7, SMTT(30)
<1>9. /\ StackOK(k) /\ k.last = g.last /\ Agree(g, k, func) /\ k.cis = Append(g.cis, ci)
      /\ k.top = func + 1 + Len(Given(fn, args))
      /\ Has(k, func, fn) /\ InPlace(k, func + 1, Called(fn, args).regs)
  BY <1>3, <1>6, <1>8, PushedAndPadded
<1> HIDE DEF k
<1>10. Agree(m, k, func)
  <2>1. func \in Int
    BY <1>1
  <2> QED
    BY <1>1, <1>6, <1>9, <2>1, AgreeSteps
<1>11. InfoOK(ci) /\ ci.func = func /\ ci.n = n /\ ci.nextra = 0 /\ ci.top = top
  BY <1>1, <1>3, NewInfo
<1> HIDE DEF ci
<1>11a. top <= Room(k)
  <2> DEFINE d == need
  <2>1. top = m.top + d /\ g.last >= m.top + d /\ k.last = g.last /\ d \in Int /\ m.top \in Int
    BY <1>1, <1>2, <1>3, <1>5, <1>9
  <2> HIDE DEF d
  <2> QED
    BY <1>2, <1>7, <2>1 DEF Room
<1>12. CASE p.vararg
  <2>1. k.top <= Room(k)
    <3>1. Len(Given(fn, args)) = IF Len(args) >= p.params THEN Len(args) ELSE p.params
      BY <1>1, GivenFacts
    <3>2. need >= p.params /\ need >= 0
      BY <1>2
    <3> HIDE DEF p, need
    <3> QED
      BY <1>1, <1>2, <1>5, <1>7, <1>9, <3>1, <3>2 DEF Room
  <2>2. k.top = func + 1 + Len(Called(fn, args).regs)
    BY <1>1, <1>9, <1>12, CalledRegs
  <2>3. Entered(m, k, func, n, fn, args)
    BY <1>3, <1>5, <1>9, <1>10, <1>11, <1>11a, <2>1, <2>2 DEF Entered, NewCI
  <2> QED
    BY <1>4, <1>12, <2>3 DEF h
<1>13. CASE ~p.vararg
  <2>1. Last(k.cis) = ci
    <3>1. Len(Append(g.cis, ci)) = Len(g.cis) + 1 /\ Append(g.cis, ci)[Len(g.cis) + 1] = ci
      OBVIOUS
    <3> QED
      BY <1>9, <3>1 DEF Last
  <2>2. h = Topped(k, top)
    BY <1>4, <1>11, <1>13, <2>1 DEF Claimed
  <2>3. SameSlots(k, h) /\ h.top = top /\ h.cis = k.cis
    BY <1>3, <1>9, <2>2, ToppedDoes
  <2>4. Has(h, func, fn) /\ InPlace(h, func + 1, Called(fn, args).regs) /\ Agree(k, h, func)
        /\ StackOK(h) /\ h.last = k.last
    BY <1>9, <2>3, SlotsKept, HasOne DEF SameSlots
  <2>5. Agree(m, h, func)
    <3>1. func \in Int
      BY <1>1
    <3> QED
      BY <1>1, <1>10, <2>4, <3>1, AgreeSteps
  <2>6. h.top <= Room(h)
    <3> DEFINE d == need
    <3>1. h.top = m.top + d /\ g.last >= m.top + d /\ h.last = g.last /\ d \in Int /\ m.top \in Int
      BY <1>1, <1>2, <1>3, <1>5, <1>9, <2>3, <2>4
    <3> HIDE DEF d
    <3> QED
      BY <1>2, <1>7, <3>1 DEF Room
  <2>7. top <= Room(h)
    BY <1>11a, <2>4 DEF Room
  <2>8. Entered(m, h, func, n, fn, args)
    BY <1>3, <1>5, <1>9, <1>11, <1>13, <2>3, <2>4, <2>5, <2>6, <2>7 DEF Entered, NewCI
  <2> QED
    BY <2>8 DEF h
<1> QED
  BY <1>12, <1>13

-----------------------------------------------------------------------------
(* Who serves whom: the activations that wait for the results of a call,   *)
(* in the order of the frames that made it.                                *)

Server == Helper \cup {"rtcall", "ctail"}
Serving(n, link) ==
  /\ IsSeq(link)
  /\ \A j \in 1..Len(link) : link[j] \in 1..Len(n) /\ n[link[j]].kind \in Server
  /\ \A i, j \in 1..Len(link) : i < j => link[i] < link[j]
  /\ \A i \in 1..Len(n) : n[i].kind \in Server => \E j \in 1..Len(link) : link[j] = i

-----------------------------------------------------------------------------
(* Frames.                                                                 *)

Function(v) == v \in DOMAIN FnInfo /\ TakesAnything(v)

(* A vararg function that runs has its frame above its extra arguments:    *)
(* low is where it was called, and where its results go.                   *)
Spread(f) == FnInfo[f.fn].vararg /\ f.ready /\ ~f.ret
Low(c, f) == IF Spread(f) THEN c.func - (c.nextra + FnInfo[f.fn].params + 1) ELSE c.func
End(c, f) == c.func + 1 + Len(f.regs)

(* A frame and its CallInfo, whatever the stack holds.                     *)
Shape(c, f) ==
  /\ InfoOK(c) /\ DOMAIN f = {"fn", "regs", "extra", "open", "ready", "closed", "ret", "want"}
  /\ f.fn \in DOMAIN FnInfo /\ IsSeq(f.regs) /\ IsSeq(f.extra) /\ f.open \in Int /\ f.open >= -1
  /\ f.ready \in BOOLEAN /\ f.closed \in BOOLEAN /\ f.ret \in BOOLEAN
  /\ Low(c, f) \in Nat
  /\ IsLua(f.fn) => c.func + 1 + FnInfo[f.fn].size <= c.top
  /\ IF Spread(f) THEN c.nextra = Len(f.extra) ELSE f.extra = <<>>
  /\ ~f.ready => FnInfo[f.fn].vararg /\ Len(f.regs) >= FnInfo[f.fn].params /\ f.open = -1
  /\ f.open >= 0 /\ IsLua(f.fn) /\ ~f.ret => f.open + 1 <= Len(f.regs) /\ f.open < FnInfo[f.fn].size
                                             /\ Function(f.regs[f.open + 1])
  /\ FnInfo[f.fn].kind \in {"calls", "pcall"} /\ f.open = -1 /\ ~f.ret =>
       Len(f.regs) >= 1 /\ Function(f.regs[1])

(* The function and the extra arguments of a frame are on the stack.       *)
Placed(m, c, f) ==
  /\ ~f.ret => Has(m, c.func, f.fn)
  /\ Spread(f) => InPlace(m, c.func - c.nextra, f.extra)
FrameOK(m, c, f) == Shape(c, f) /\ Placed(m, c, f)
RegsOK(m, c, f) == InPlace(m, c.func + 1, f.regs)
Fits(f) == f.ready /\ f.open = -1 => Len(f.regs) <= FnInfo[f.fn].size

(* Activation x serves frame j: what it has noted is what the frame wants. *)
DealOK(m, x, j, c, f) ==
  /\ IsSeq(f.want.pre) /\ IsSeq(f.want.post) /\ f.want.n \in Int /\ f.want.n >= -1 /\ f.ready /\ ~f.ret
  /\ x.kind \in Server
  /\ IsLua(f.fn) \/ FnInfo[f.fn].kind = x.kind
  /\ x.kind \in {"calls", "pcall"} => ~IsLua(f.fn)
  /\ x.kind # "meta" => f.want.post = <<>>
  /\ x.kind \in {"rtcall", "slow"} => x.n = f.want.n /\ (f.want.n >= 0 <=> f.open = -1)
  /\ x.kind \in {"rtcall", "meta"} => x.a = Len(f.want.pre)
  /\ x.kind = "meta" => f.want.n = 1 /\ f.open = -1
  /\ x.kind = "tfor" => f.want.n >= 0 /\ f.open = -1
  /\ x.kind = "close" =>
       /\ f.want.n = 0 /\ f.closed /\ x.n \in Nat /\ x.n <= Room(m)
       /\ f.open >= 0 => x.n = c.func + 1 + Len(f.want.pre)
  /\ x.kind \in {"calls", "pcall"} =>
       x.a = j /\ f.want.n = -1 /\ f.open = 0 /\ x.n = c.func + 1 + Len(f.want.pre)
  /\ x.kind = "calls" => f.want.pre = <<>>
  /\ x.kind = "pcall" => f.want.pre = <<yes>> /\ x.n + 3 <= c.top
  /\ x.kind = "ctail" =>
       f.want.n = -1 /\ f.want.pre = <<>> /\ f.open = -1 /\ x.a \in Nat /\ x.n = c.func - Low(c, f)

(* The frame waits for n results of a callee that starts at low.           *)
WaitOK(m, x, c, f, n, low) ==
  /\ n = f.want.n
  /\ f.want.n >= 0 => low + f.want.n <= m.last + Extra
  /\ x.kind = "meta" =>
       /\ Len(f.regs) = Len(f.want.pre) + 1 + Len(f.want.post)
       /\ InPlace(m, c.func + 1, f.want.pre)
       /\ InPlace(m, c.func + 1 + Len(f.want.pre) + 1, f.want.post)
  /\ x.kind # "meta" => f.regs = f.want.pre
  /\ x.kind \notin {"meta", "close", "ctail"} => low = c.func + 1 + Len(f.want.pre)
  /\ x.kind = "ctail" => low = c.func + 1 + x.a
  /\ x.kind # "ctail" /\ IsLua(f.fn) /\ f.open = -1 =>
       Len(f.want.pre) + f.want.n + Len(f.want.post) <= FnInfo[f.fn].size

(* All of a frame that waits.                                              *)
OneOK(m, x, j, c, f, n, low) ==
  /\ FrameOK(m, c, f) /\ RegsOK(m, c, f) /\ End(c, f) <= low
  /\ DealOK(m, x, j, c, f) /\ WaitOK(m, x, c, f, n, low)

(* The frames below frame k, which wants n results from low on.            *)
LowerOK(m, cs, fs, ns, link, k, n, low) ==
  \A j \in 1..(k - 1) :
    /\ OneOK(m, ns[link[j]], j, cs[j], fs[j], IF j = k - 1 THEN n ELSE cs[j + 1].n,
             IF j = k - 1 THEN low ELSE Low(cs[j + 1], fs[j + 1]))
    /\ End(cs[j], fs[j]) <= low
    /\ \A i \in 1..(j - 1) : End(cs[i], fs[i]) <= Low(cs[j], fs[j])

-----------------------------------------------------------------------------
(* The function on top.                                                    *)

(* A native function runs, or is about to.                                 *)
RunOK(m, c, f) ==
  /\ ~f.ret /\ IsLua(f.fn) /\ RegsOK(m, c, f) /\ Fits(f) /\ m.top <= Room(m)
  /\ ~f.ready \/ f.open >= 0 => m.top = End(c, f)
(* A C function runs.                                                      *)
OpOK(m, c, f) ==
  /\ ~f.ret /\ ~IsLua(f.fn) /\ f.ready /\ RegsOK(m, c, f) /\ m.top = End(c, f) /\ m.top <= Room(m)
  /\ FnInfo[f.fn].kind = "c" => m.top + MinStack <= c.top /\ f.open = -1
  /\ FnInfo[f.fn].kind = "pcall" /\ f.open = -1 => m.top + 3 <= c.top
(* A native function has left its results.                                 *)
LeftOK(m, c, f, r) ==
  /\ f.ret /\ m.top = c.func + Len(f.regs) /\ r = Len(f.regs)
  /\ InPlace(m, c.func, f.regs) /\ m.top <= Room(m)
(* The results have been handed to the frame that called, and its helper   *)
(* goes on.                                                                *)
MidOK(m, x, c, f, r) ==
  /\ x.kind \notin {"meta", "ctail"} => RegsOK(m, c, f)
  /\ x.kind \in {"slow", "tfor", "calls", "pcall"} => m.top = End(c, f) /\ m.top <= Room(m)
  /\ x.kind = "meta" =>
       /\ \E v : f.regs = f.want.pre \o <<v>> \o f.want.post /\ m.top - 1 \in Nat /\ Has(m, m.top - 1, v)
       /\ InPlace(m, c.func + 1, f.want.pre)
       /\ InPlace(m, c.func + 1 + Len(f.want.pre) + 1, f.want.post)
       /\ m.top - 1 >= End(c, f)
  /\ x.kind = "ctail" =>
       InPlace(m, c.func + 1 + x.a, f.regs) /\ r = Len(f.regs) /\ c.func + 1 + x.a + Len(f.regs) <= Room(m)
  /\ x.kind = "close" => Len(f.regs) = Len(f.want.pre)
  /\ x.kind \in {"slow", "meta", "tfor", "close"} => Fits(f)

TopOK(m, x, j, c, f, r, again) ==
  /\ r \in Int /\ (r = -1 <=> x.kind \in {"body", "cfn"})
  /\ f.ret <=> x.kind \in Entry /\ ~again
  /\ x.kind = "body" \/ again => RunOK(m, c, f)
  /\ x.kind = "cfn" => OpOK(m, c, f)
  /\ x.kind \in Entry /\ ~again => LeftOK(m, c, f, r)
  /\ x.kind \in Helper \cup {"ctail"} => DealOK(m, x, j, c, f) /\ MidOK(m, x, c, f, r)

(* The stack, the frames and the activations that serve them.              *)
HoldsOK(m, fs, ns, link) ==
  /\ StackOK(m) /\ IsSeq(m.cis) /\ IsSeq(fs) /\ Len(fs) >= 1 /\ Len(m.cis) = Len(fs)
  /\ Serving(ns, link)
  /\ Len(link) = IF ns[Len(ns)].kind \in Helper \cup {"ctail"} THEN Len(fs) ELSE Len(fs) - 1
  /\ LowerOK(m, m.cis, fs, ns, link, Len(fs), m.cis[Len(fs)].n, Low(m.cis[Len(fs)], fs[Len(fs)]))
  /\ FrameOK(m, m.cis[Len(fs)], fs[Len(fs)])

DataInv ==
  /\ prog \in Programs /\ fuel \in Nat
  /\ \E link : HoldsOK(stk, lua, nat, link)
  /\ TopOK(stk, nat[Len(nat)], Len(lua), stk.cis[Len(lua)], lua[Len(lua)], rax, rep)
-----------------------------------------------------------------------------
(* Who serves whom, as activations come and go.                            *)

(* One more activation.                                                    *)
LEMMA ServingPush ==
  ASSUME NEW n, NEW link, Serving(n, link), IsSeq(n), NEW m, NEW a, Longer(n, m, a)
  PROVE  /\ a.kind \notin Server => Serving(m, link)
         /\ a.kind \in Server => Serving(m, Append(link, Len(m))) /\ Longer(link, Append(link, Len(m)), Len(m))
         /\ \A j \in 1..Len(link) : m[link[j]] = n[link[j]]
<1>1. /\ IsSeq(link) /\ Len(link) \in Nat /\ Len(n) \in Nat
      /\ \A j \in 1..Len(link) : link[j] \in 1..Len(n) /\ n[link[j]].kind \in Server
      /\ \A i, j \in 1..Len(link) : i < j => link[i] < link[j]
      /\ \A i \in 1..Len(n) : n[i].kind \in Server => \E j \in 1..Len(link) : link[j] = i
  BY SeqFacts DEF Serving
<1>2. Len(m) = Len(n) + 1 /\ (\A i \in 1..Len(n) : m[i] = n[i]) /\ m[Len(n) + 1] = a
  BY DEF Longer
<1>3. \A j \in 1..Len(link) : m[link[j]] = n[link[j]] /\ link[j] \in 1..Len(m)
  BY <1>1, <1>2
<1>4. ASSUME a.kind \notin Server PROVE Serving(m, link)
  <2>1. ASSUME NEW i \in 1..Len(m), m[i].kind \in Server PROVE \E j \in 1..Len(link) : link[j] = i
    <3>1. i # Len(n) + 1
      BY <1>2, <1>4, <2>1
    <3>2. i \in 1..Len(n)
      BY <1>1, <1>2, <3>1
    <3> QED
      BY <1>1, <1>2, <2>1, <3>2
  <2> QED
    BY <1>1, <1>3, <2>1 DEF Serving
<1>5. ASSUME a.kind \in Server
      PROVE  Serving(m, Append(link, Len(m))) /\ Longer(link, Append(link, Len(m)), Len(m))
  <2> DEFINE t == Append(link, Len(m))
  <2>1. Longer(link, t, Len(m))
    BY <1>1, AppendLonger
  <2> HIDE DEF t
  <2>2. IsSeq(t) /\ Len(t) = Len(link) + 1 /\ (\A j \in 1..Len(link) : t[j] = link[j]) /\ t[Len(link) + 1] = Len(m)
    BY <2>1 DEF Longer
  <2>3. ASSUME NEW j \in 1..Len(t) PROVE t[j] \in 1..Len(m) /\ m[t[j]].kind \in Server
    <3>1. CASE j = Len(link) + 1
      BY <1>1, <1>2, <1>5, <2>2, <3>1
    <3>2. CASE j # Len(link) + 1
      <4>1. j \in 1..Len(link)
        BY <1>1, <2>2, <3>2
      <4> QED
        BY <1>1, <1>3, <2>2, <4>1
    <3> QED
      BY <3>1, <3>2
  <2>4. ASSUME NEW i \in 1..Len(t), NEW j \in 1..Len(t), i < j PROVE t[i] < t[j]
    <3>1. i \in 1..Len(link)
      BY <1>1, <2>2, <2>4
    <3>2. CASE j = Len(link) + 1
      BY <1>1, <1>2, <2>2, <3>1, <3>2
    <3>3. CASE j # Len(link) + 1
      <4>1. j \in 1..Len(link)
        BY <1>1, <2>2, <3>3
      <4> QED
        BY <1>1, <2>2, <2>4, <3>1, <4>1
    <3> QED
      BY <3>2, <3>3
  <2>5. ASSUME NEW i \in 1..Len(m), m[i].kind \in Server PROVE \E j \in 1..Len(t) : t[j] = i
    <3>1. CASE i = Len(m)
      <4>1. Len(link) + 1 \in 1..Len(t)
        BY <1>1, <2>2
      <4> QED
        BY <2>2, <3>1, <4>1
    <3>2. CASE i # Len(m)
      <4>1. i \in 1..Len(n) /\ n[i].kind \in Server
        BY <1>1, <1>2, <2>5, <3>2
      <4>2. PICK j \in 1..Len(link) : link[j] = i
        BY <1>1, <4>1
      <4>3. j \in 1..Len(t) /\ t[j] = i
        BY <1>1, <2>2, <4>2
      <4> QED
        BY <4>3
    <3> QED
      BY <3>1, <3>2
  <2>6. Serving(m, t)
    BY <2>2, <2>3, <2>4, <2>5 DEF Serving
  <2> QED
    BY <2>1, <2>6 DEF t
<1> QED
  BY <1>3, <1>4, <1>5

(* The activations up to k, and the links to them.                         *)
LEMMA ServingCut ==
  ASSUME NEW n, NEW link, Serving(n, link), IsSeq(n), NEW m, IsSeq(m), Len(m) <= Len(n),
         \A i \in 1..Len(m) : m[i] = n[i],
         NEW l \in 0..Len(link), \A j \in 1..Len(link) : link[j] <= Len(m) <=> j <= l
  PROVE  /\ Serving(m, SubSeq(link, 1, l)) /\ Len(SubSeq(link, 1, l)) = l
         /\ \A j \in 1..l : SubSeq(link, 1, l)[j] = link[j] /\ m[link[j]] = n[link[j]]
<1> DEFINE t == SubSeq(link, 1, l)
<1>1. /\ IsSeq(link) /\ Len(link) \in Nat /\ Len(n) \in Nat /\ Len(m) \in Nat
      /\ \A j \in 1..Len(link) : link[j] \in 1..Len(n) /\ n[link[j]].kind \in Server
      /\ \A i, j \in 1..Len(link) : i < j => link[i] < link[j]
      /\ \A i \in 1..Len(n) : n[i].kind \in Server => \E j \in 1..Len(link) : link[j] = i
  BY SeqFacts DEF Serving
<1>2. IsSeq(t) /\ Len(t) = l /\ \A j \in 1..l : t[j] = link[j]
  BY <1>1, Beginning
<1> HIDE DEF t
<1>3. \A j \in 1..l : j \in 1..Len(link) /\ link[j] \in 1..Len(m) /\ m[link[j]] = n[link[j]]
  BY <1>1
<1>4. ASSUME NEW i \in 1..Len(m), m[i].kind \in Server PROVE \E j \in 1..l : link[j] = i
  <2>1. i \in 1..Len(n) /\ n[i].kind \in Server
    BY <1>1, <1>4
  <2>2. PICK j \in 1..Len(link) : link[j] = i
    BY <1>1, <2>1
  <2>3. j \in 1..l
    BY <1>1, <2>2
  <2> QED
    BY <2>2, <2>3
<1>5. \A i, j \in 1..l : i < j => t[i] < t[j]
  BY <1>1, <1>2, <1>3
<1>6. Serving(m, t)
  <2>1. ASSUME NEW j \in 1..l PROVE t[j] \in 1..Len(m) /\ m[t[j]].kind \in Server
    BY <1>1, <1>2, <1>3
  <2>2. ASSUME NEW i \in 1..Len(m), m[i].kind \in Server PROVE \E j \in 1..l : t[j] = i
    BY <1>2, <1>4, <2>2
  <2> QED
    BY <1>2, <1>5, <2>1, <2>2 DEF Serving
<1> QED
  BY <1>2, <1>3, <1>6 DEF t

(* The activation on top goes.                                             *)
LEMMA ServingPop ==
  ASSUME NEW n, NEW link, Serving(n, link), IsSeq(n), Len(n) >= 1
  PROVE  /\ n[Len(n)].kind \notin Server => Serving(Front(n), link)
         /\ n[Len(n)].kind \in Server =>
              /\ Len(link) >= 1 /\ link[Len(link)] = Len(n)
              /\ Serving(Front(n), Front(link)) /\ Len(Front(link)) = Len(link) - 1
              /\ \A j \in 1..(Len(link) - 1) : Front(link)[j] = link[j] /\ Front(n)[link[j]] = n[link[j]]
         /\ n[Len(n)].kind \notin Server => \A j \in 1..Len(link) : Front(n)[link[j]] = n[link[j]]
<1>1. /\ IsSeq(link) /\ Len(link) \in Nat /\ Len(n) \in Nat
      /\ \A j \in 1..Len(link) : link[j] \in 1..Len(n) /\ n[link[j]].kind \in Server
      /\ \A i, j \in 1..Len(link) : i < j => link[i] < link[j]
      /\ \A i \in 1..Len(n) : n[i].kind \in Server => \E j \in 1..Len(link) : link[j] = i
  BY SeqFacts DEF Serving
<1>2. IsSeq(Front(n)) /\ Len(Front(n)) = Len(n) - 1 /\ \A i \in 1..Len(Front(n)) : Front(n)[i] = n[i]
  BY <1>1, FrontShorter DEF Shorter
<1> DEFINE m == Front(n)
<1> HIDE DEF m
<1>3. IsSeq(m) /\ Len(m) = Len(n) - 1 /\ (\A i \in 1..Len(m) : m[i] = n[i]) /\ Len(m) <= Len(n)
  BY <1>1, <1>2 DEF m
<1>4. ASSUME n[Len(n)].kind \notin Server
      PROVE  Serving(m, link) /\ \A j \in 1..Len(link) : m[link[j]] = n[link[j]]
  <2>1. \A j \in 1..Len(link) : link[j] # Len(n)
    BY <1>1, <1>4
  <2>2. \A j \in 1..Len(link) : link[j] \in 1..Len(m) /\ m[link[j]] = n[link[j]]
    BY <1>1, <1>3, <2>1, SMTT(30)
  <2>3. \A i \in 1..Len(m) : m[i].kind \in Server => \E j \in 1..Len(link) : link[j] = i
    BY <1>1, <1>3
  <2> QED
    BY <1>1, <2>2, <2>3 DEF Serving
<1>5. ASSUME n[Len(n)].kind \in Server
      PROVE  /\ Len(link) >= 1 /\ link[Len(link)] = Len(n)
             /\ Serving(m, Front(link)) /\ Len(Front(link)) = Len(link) - 1
             /\ \A j \in 1..(Len(link) - 1) : Front(link)[j] = link[j] /\ m[link[j]] = n[link[j]]
  <2>1. PICK k \in 1..Len(link) : link[k] = Len(n)
    BY <1>1, <1>5
  <2>2. Len(link) >= 1 /\ link[Len(link)] = Len(n)
    BY <1>1, <2>1
  <2>3. Len(link) - 1 \in 0..Len(link)
    BY <1>1, <2>2
  <2>4. \A j \in 1..Len(link) : link[j] <= Len(m) <=> j <= Len(link) - 1
    BY <1>1, <1>3, <2>2
  <2>5. /\ Serving(m, SubSeq(link, 1, Len(link) - 1)) /\ Len(SubSeq(link, 1, Len(link) - 1)) = Len(link) - 1
        /\ \A j \in 1..(Len(link) - 1) :
             SubSeq(link, 1, Len(link) - 1)[j] = link[j] /\ m[link[j]] = n[link[j]]
    <3> DEFINE l == Len(link) - 1
    <3>1. l \in 0..Len(link) /\ \A j \in 1..Len(link) : link[j] <= Len(m) <=> j <= l
      BY <2>3, <2>4
    <3> HIDE DEF l
    <3>2. /\ Serving(m, SubSeq(link, 1, l)) /\ Len(SubSeq(link, 1, l)) = l
          /\ \A j \in 1..l : SubSeq(link, 1, l)[j] = link[j] /\ m[link[j]] = n[link[j]]
      <4>1. IsSeq(m) /\ Len(m) <= Len(n) /\ (\A i \in 1..Len(m) : m[i] = n[i])
        BY <1>3
      <4> QED
        BY <3>1, <4>1, ServingCut
    <3> QED
      BY <3>2 DEF l
  <2> QED
    BY <2>2, <2>5 DEF Front
<1> QED
  BY <1>4, <1>5 DEF m

(* The topmost of a list of frames is changed.                             *)
LEMMA NowSeq ==
  ASSUME NEW s, IsSeq(s), Len(s) >= 1, NEW e
  PROVE  /\ IsSeq(Append(Front(s), e)) /\ Len(Append(Front(s), e)) = Len(s) /\ Len(s) \in Nat
         /\ Append(Front(s), e)[Len(s)] = e
         /\ \A j \in 1..(Len(s) - 1) : Append(Front(s), e)[j] = s[j]
<1>1. IsSeq(Front(s)) /\ Len(Front(s)) = Len(s) - 1 /\ \A i \in 1..Len(Front(s)) : Front(s)[i] = s[i]
  BY FrontShorter DEF Shorter
<1>2. Longer(Front(s), Append(Front(s), e), e)
  BY <1>1, AppendLonger
<1>3. Len(s) \in Nat
  BY SeqFacts
<1> DEFINE t == Append(Front(s), e)
<1> HIDE DEF t
<1>4. IsSeq(t) /\ Len(t) = Len(Front(s)) + 1 /\ (\A i \in 1..Len(Front(s)) : t[i] = Front(s)[i])
      /\ t[Len(Front(s)) + 1] = e
  BY <1>2 DEF Longer, t
<1>5. Len(Front(s)) + 1 = Len(s)
  BY <1>1, <1>3
<1>6. IsSeq(t) /\ Len(t) = Len(s) /\ t[Len(s)] = e /\ \A j \in 1..(Len(s) - 1) : t[j] = s[j]
  BY <1>1, <1>4, <1>5
<1> QED
  BY <1>3, <1>6 DEF t
-----------------------------------------------------------------------------
(* What stays of the frames while something is done above them.            *)

(* The numbers of a frame: it lies from its low slot to its last register. *)
LEMMA ShapeFacts ==
  ASSUME NEW c, NEW f, Shape(c, f)
  PROVE  /\ c.func \in Nat /\ c.top \in Nat /\ c.nextra \in Nat /\ c.n \in Int /\ c.n >= -1
         /\ f.fn \in DOMAIN FnInfo /\ IsSeq(f.regs) /\ Len(f.regs) \in Nat
         /\ IsSeq(f.extra) /\ Len(f.extra) \in Nat
         /\ f.open \in Int /\ f.open >= -1
         /\ f.ready \in BOOLEAN /\ f.closed \in BOOLEAN /\ f.ret \in BOOLEAN
         /\ Low(c, f) \in Nat /\ Low(c, f) <= c.func /\ End(c, f) \in Nat /\ c.func < End(c, f)
         /\ FnInfo[f.fn].params \in Nat /\ FnInfo[f.fn].size \in Nat
         /\ Spread(f) => Low(c, f) = c.func - (c.nextra + FnInfo[f.fn].params + 1)
         /\ ~Spread(f) => Low(c, f) = c.func /\ f.extra = <<>>
         /\ Spread(f) \in BOOLEAN
<1>1. /\ c.func \in Nat /\ c.top \in Nat /\ c.nextra \in Nat /\ c.n \in Int /\ c.n >= -1
      /\ f.fn \in DOMAIN FnInfo /\ IsSeq(f.regs) /\ IsSeq(f.extra) /\ f.open \in Int /\ f.open >= -1
      /\ f.ready \in BOOLEAN /\ f.closed \in BOOLEAN /\ f.ret \in BOOLEAN
      /\ Low(c, f) \in Nat /\ (~Spread(f) => f.extra = <<>>)
  BY DEF Shape, InfoOK
<1>2. Len(f.regs) \in Nat /\ Len(f.extra) \in Nat
  BY <1>1, SeqFacts
<1>3. FnInfo[f.fn].params \in Nat /\ FnInfo[f.fn].size \in Nat /\ FnInfo[f.fn].vararg \in BOOLEAN
  BY <1>1, FnFacts
<1>4. /\ Spread(f) => Low(c, f) = c.func - (c.nextra + FnInfo[f.fn].params + 1)
      /\ ~Spread(f) => Low(c, f) = c.func
  BY DEF Low
<1>5. Low(c, f) <= c.func
  BY <1>1, <1>3, <1>4
<1>6. End(c, f) \in Nat /\ c.func < End(c, f)
  BY <1>1, <1>2 DEF End
<1>7. Spread(f) \in BOOLEAN
  BY DEF Spread
<1> QED
  BY <1>1, <1>2, <1>3, <1>4, <1>5, <1>6, <1>7

(* A frame whose slots stay is still in place.                             *)
LEMMA FrameStays ==
  ASSUME NEW m, StackOK(m), NEW g, NEW b \in Int, Agree(m, g, b), NEW c, NEW f, FrameOK(m, c, f),
         c.func < b
  PROVE  FrameOK(g, c, f) /\ (RegsOK(m, c, f) /\ End(c, f) <= b => RegsOK(g, c, f))
<1>1. Shape(c, f) /\ (~f.ret => Has(m, c.func, f.fn)) /\ (Spread(f) => InPlace(m, c.func - c.nextra, f.extra))
  BY DEF FrameOK, Placed
<1>2. c.func \in Nat /\ c.nextra \in Nat /\ IsSeq(f.regs) /\ IsSeq(f.extra) /\ (Spread(f) => c.nextra = Len(f.extra))
  BY <1>1, ShapeFacts DEF Shape
<1>3. ASSUME ~f.ret PROVE Has(g, c.func, f.fn)
  BY <1>1, <1>2, <1>3, HasStays
<1>4. ASSUME Spread(f) PROVE InPlace(g, c.func - c.nextra, f.extra)
  <2>1. c.func - c.nextra + Len(f.extra) <= b
    BY <1>2, <1>4
  <2> QED
    BY <1>1, <1>2, <1>4, <2>1, StaysInPlace
<1>5. ASSUME RegsOK(m, c, f), End(c, f) <= b PROVE RegsOK(g, c, f)
  BY <1>2, <1>5, StaysInPlace DEF RegsOK, End
<1> QED
  BY <1>1, <1>3, <1>4, <1>5 DEF FrameOK, Placed

(* So is one that waits.                                                   *)
LEMMA OneStays ==
  ASSUME NEW m, StackOK(m), NEW g, NEW b \in Int, Agree(m, g, b),
         NEW x, NEW j, NEW c, NEW f, NEW n, NEW low \in Int, OneOK(m, x, j, c, f, n, low), End(c, f) <= b
  PROVE  OneOK(g, x, j, c, f, n, low)
<1>1. /\ FrameOK(m, c, f) /\ RegsOK(m, c, f) /\ End(c, f) <= low
      /\ DealOK(m, x, j, c, f) /\ WaitOK(m, x, c, f, n, low)
  BY DEF OneOK
<1>2. Shape(c, f)
  BY <1>1 DEF FrameOK
<1>3. c.func \in Nat /\ End(c, f) \in Nat /\ c.func < End(c, f) /\ IsSeq(f.regs) /\ Len(f.regs) \in Nat
  BY <1>2, ShapeFacts
<1>4. FrameOK(g, c, f) /\ RegsOK(g, c, f)
  <2>1. c.func < b
    BY <1>3
  <2> QED
    BY <1>1, <2>1, FrameStays
<1>5. m.last \in Nat /\ g.last \in Nat /\ m.last <= g.last /\ Extra \in Nat
  BY ExtraNat DEF StackOK, Agree
<1>6. Room(m) \in Int /\ Room(g) \in Int /\ Room(m) <= Room(g)
  BY <1>5 DEF Room
<1>7. DealOK(g, x, j, c, f)
  <2>1. x.kind = "close" =>
       /\ f.want.n = 0 /\ f.closed /\ x.n \in Nat /\ x.n <= Room(g)
       /\ f.open >= 0 => x.n = c.func + 1 + Len(f.want.pre)
    BY <1>1, <1>6 DEF DealOK
  <2> QED
    BY <1>1, <2>1 DEF DealOK
<1>8. WaitOK(g, x, c, f, n, low)
  <2>1. IsSeq(f.want.pre) /\ IsSeq(f.want.post) /\ f.want.n \in Int
    BY <1>1 DEF DealOK
  <2>2. Len(f.want.pre) \in Nat /\ Len(f.want.post) \in Nat
    BY <2>1, SeqFacts
  <2>3. f.want.n >= 0 => low + f.want.n <= g.last + Extra
    BY <1>1, <1>5, <2>1 DEF WaitOK
  <2>4. ASSUME x.kind = "meta"
        PROVE  /\ Len(f.regs) = Len(f.want.pre) + 1 + Len(f.want.post)
               /\ InPlace(g, c.func + 1, f.want.pre)
               /\ InPlace(g, c.func + 1 + Len(f.want.pre) + 1, f.want.post)
    <3>1. /\ Len(f.regs) = Len(f.want.pre) + 1 + Len(f.want.post)
          /\ InPlace(m, c.func + 1, f.want.pre)
          /\ InPlace(m, c.func + 1 + Len(f.want.pre) + 1, f.want.post)
      BY <1>1, <2>4 DEF WaitOK
    <3>2. /\ c.func + 1 + Len(f.want.pre) <= b
          /\ c.func + 1 + Len(f.want.pre) + 1 + Len(f.want.post) <= b
      <4> DEFINE p == Len(f.want.pre)
                 q == Len(f.want.post)
                 r == Len(f.regs)
      <4>1. p \in Nat /\ q \in Nat /\ r \in Nat /\ r = p + 1 + q /\ c.func + 1 + r <= b
        BY <1>3, <2>2, <3>1 DEF End
      <4> HIDE DEF p, q, r
      <4>2. c.func + 1 + p <= b /\ c.func + 1 + p + 1 + q <= b
        BY <1>3, <4>1
      <4> QED
        BY <4>2 DEF p, q
    <3>3. InPlace(g, c.func + 1, f.want.pre)
      BY <2>1, <3>1, <3>2, StaysInPlace
    <3>4. InPlace(g, c.func + 1 + Len(f.want.pre) + 1, f.want.post)
      BY <2>1, <3>1, <3>2, StaysInPlace
    <3> QED
      BY <3>1, <3>3, <3>4
  <2> QED
    BY <1>1, <2>3, <2>4 DEF WaitOK
<1> QED
  BY <1>1, <1>4, <1>7, <1>8 DEF OneOK

(* The frames below stay where the slots below do, and their activations.  *)
LEMMA LowerUp ==
  ASSUME NEW m, StackOK(m), NEW cs, NEW fs, NEW ns, NEW link, NEW k \in Nat \ {0}, NEW n, NEW low \in Int,
         LowerOK(m, cs, fs, ns, link, k, n, low), NEW g, Agree(m, g, low),
         NEW ds, NEW gs, NEW os, NEW to,
         \A j \in 1..(k - 1) : ds[j] = cs[j] /\ gs[j] = fs[j] /\ os[to[j]] = ns[link[j]]
  PROVE  LowerOK(g, ds, gs, os, to, k, n, low)
<1> SUFFICES ASSUME NEW j \in 1..(k - 1)
             PROVE  /\ OneOK(g, os[to[j]], j, ds[j], gs[j], IF j = k - 1 THEN n ELSE ds[j + 1].n,
                             IF j = k - 1 THEN low ELSE Low(ds[j + 1], gs[j + 1]))
                    /\ End(ds[j], gs[j]) <= low
                    /\ \A i \in 1..(j - 1) : End(ds[i], gs[i]) <= Low(ds[j], gs[j])
  BY DEF LowerOK
<1> DEFINE nn == IF j = k - 1 THEN n ELSE cs[j + 1].n
           ll == IF j = k - 1 THEN low ELSE Low(cs[j + 1], fs[j + 1])
<1>1. /\ OneOK(m, ns[link[j]], j, cs[j], fs[j], nn, ll) /\ End(cs[j], fs[j]) <= low
      /\ \A i \in 1..(j - 1) : End(cs[i], fs[i]) <= Low(cs[j], fs[j])
  BY DEF LowerOK
<1>2. ds[j] = cs[j] /\ gs[j] = fs[j] /\ os[to[j]] = ns[link[j]]
  OBVIOUS
<1>3. ASSUME j # k - 1 PROVE j + 1 \in 1..(k - 1)
  BY <1>3
<1>4. /\ nn = IF j = k - 1 THEN n ELSE ds[j + 1].n
      /\ ll = IF j = k - 1 THEN low ELSE Low(ds[j + 1], gs[j + 1])
  BY <1>3
<1>5. ll \in Int
  <2>1. ASSUME j # k - 1 PROVE Low(cs[j + 1], fs[j + 1]) \in Int
    <3>1. Shape(cs[j + 1], fs[j + 1])
      BY <1>3, <2>1 DEF LowerOK, OneOK, FrameOK
    <3> QED
      BY <3>1, ShapeFacts
  <2> QED
    BY <2>1
<1> HIDE DEF nn, ll
<1>6. OneOK(g, ns[link[j]], j, cs[j], fs[j], nn, ll)
  BY <1>1, <1>5, OneStays
<1>7. \A i \in 1..(j - 1) : i \in 1..(k - 1)
  OBVIOUS
<1> QED
  BY <1>1, <1>2, <1>4, <1>6, <1>7

(* A frame more.                                                           *)
LEMMA LowerMore ==
  ASSUME NEW m, NEW cs, NEW fs, NEW ns, NEW link, NEW k \in Nat \ {0},
         LowerOK(m, cs, fs, ns, link, k, cs[k].n, Low(cs[k], fs[k])),
         NEW n, NEW low \in Int, OneOK(m, ns[link[k]], k, cs[k], fs[k], n, low)
  PROVE  LowerOK(m, cs, fs, ns, link, k + 1, n, low)
<1>1. Shape(cs[k], fs[k]) /\ End(cs[k], fs[k]) <= low
  BY DEF OneOK, FrameOK
<1>2. Low(cs[k], fs[k]) \in Nat /\ End(cs[k], fs[k]) \in Nat /\ Low(cs[k], fs[k]) < End(cs[k], fs[k])
  <2>1. /\ Low(cs[k], fs[k]) \in Nat /\ End(cs[k], fs[k]) \in Nat
        /\ Low(cs[k], fs[k]) <= cs[k].func /\ cs[k].func < End(cs[k], fs[k]) /\ cs[k].func \in Nat
    BY <1>1, ShapeFacts
  <2> QED
    BY <2>1
<1>3. \A j \in 1..(k - 1) : End(cs[j], fs[j]) \in Nat
  <2> SUFFICES ASSUME NEW j \in 1..(k - 1) PROVE End(cs[j], fs[j]) \in Nat
    OBVIOUS
  <2>1. Shape(cs[j], fs[j])
    BY DEF LowerOK, OneOK, FrameOK
  <2> QED
    BY <2>1, ShapeFacts
<1> SUFFICES ASSUME NEW j \in 1..k
             PROVE  /\ OneOK(m, ns[link[j]], j, cs[j], fs[j], IF j = k THEN n ELSE cs[j + 1].n,
                             IF j = k THEN low ELSE Low(cs[j + 1], fs[j + 1]))
                    /\ End(cs[j], fs[j]) <= low
                    /\ \A i \in 1..(j - 1) : End(cs[i], fs[i]) <= Low(cs[j], fs[j])
  <2>1. k + 1 - 1 = k
    OBVIOUS
  <2> QED
    BY <2>1 DEF LowerOK
<1>4. CASE j = k
  <2>1. \A i \in 1..(k - 1) : End(cs[i], fs[i]) <= Low(cs[k], fs[k])
    BY DEF LowerOK
  <2> QED
    BY <1>1, <1>4, <2>1
<1>5. CASE j # k
  <2>1. j \in 1..(k - 1) /\ (j = k - 1 => j + 1 = k)
    BY <1>5
  <2>2. /\ OneOK(m, ns[link[j]], j, cs[j], fs[j], IF j = k - 1 THEN cs[k].n ELSE cs[j + 1].n,
                 IF j = k - 1 THEN Low(cs[k], fs[k]) ELSE Low(cs[j + 1], fs[j + 1]))
        /\ End(cs[j], fs[j]) <= Low(cs[k], fs[k])
        /\ \A i \in 1..(j - 1) : End(cs[i], fs[i]) <= Low(cs[j], fs[j])
    BY <2>1 DEF LowerOK
  <2>3. OneOK(m, ns[link[j]], j, cs[j], fs[j], cs[j + 1].n, Low(cs[j + 1], fs[j + 1]))
    <3>1. CASE j = k - 1
      BY <2>1, <2>2, <3>1
    <3>2. CASE j # k - 1
      BY <2>2, <3>2
    <3> QED
      BY <3>1, <3>2
  <2>4. End(cs[j], fs[j]) <= low
    BY <1>1, <1>2, <1>3, <2>1, <2>2
  <2> QED
    BY <1>5, <2>2, <2>3, <2>4
<1> QED
  BY <1>4, <1>5

(* The topmost of them, and those below it.                                *)
LEMMA LowerLess ==
  ASSUME NEW m, NEW cs, NEW fs, NEW ns, NEW link, NEW k \in Nat \ {0}, NEW n, NEW low,
         LowerOK(m, cs, fs, ns, link, k, n, low), NEW l \in 1..(k - 1)
  PROVE  /\ LowerOK(m, cs, fs, ns, link, l, cs[l].n, Low(cs[l], fs[l]))
         /\ l = k - 1 => OneOK(m, ns[link[l]], l, cs[l], fs[l], n, low)
         /\ FrameOK(m, cs[l], fs[l]) /\ RegsOK(m, cs[l], fs[l]) /\ DealOK(m, ns[link[l]], l, cs[l], fs[l])
         /\ End(cs[l], fs[l]) <= low
<1>1. /\ FrameOK(m, cs[l], fs[l]) /\ RegsOK(m, cs[l], fs[l]) /\ DealOK(m, ns[link[l]], l, cs[l], fs[l])
      /\ End(cs[l], fs[l]) <= low /\ (l = k - 1 => OneOK(m, ns[link[l]], l, cs[l], fs[l], n, low))
  BY DEF LowerOK, OneOK
<1>2. ASSUME NEW j \in 1..(l - 1)
      PROVE  /\ OneOK(m, ns[link[j]], j, cs[j], fs[j], IF j = l - 1 THEN cs[l].n ELSE cs[j + 1].n,
                      IF j = l - 1 THEN Low(cs[l], fs[l]) ELSE Low(cs[j + 1], fs[j + 1]))
             /\ End(cs[j], fs[j]) <= Low(cs[l], fs[l])
             /\ \A i \in 1..(j - 1) : End(cs[i], fs[i]) <= Low(cs[j], fs[j])
  <2>1. j \in 1..(k - 1) /\ j # k - 1 /\ (j = l - 1 => j + 1 = l)
    OBVIOUS
  <2>2. OneOK(m, ns[link[j]], j, cs[j], fs[j], cs[j + 1].n, Low(cs[j + 1], fs[j + 1]))
    BY <2>1 DEF LowerOK
  <2>3. OneOK(m, ns[link[j]], j, cs[j], fs[j], IF j = l - 1 THEN cs[l].n ELSE cs[j + 1].n,
                      IF j = l - 1 THEN Low(cs[l], fs[l]) ELSE Low(cs[j + 1], fs[j + 1]))
    <3>1. CASE j = l - 1
      BY <2>1, <2>2, <3>1
    <3>2. CASE j # l - 1
      BY <2>2, <3>2
    <3> QED
      BY <3>1, <3>2
  <2>4. End(cs[j], fs[j]) <= Low(cs[l], fs[l])
    BY DEF LowerOK
  <2>5. \A i \in 1..(j - 1) : End(cs[i], fs[i]) <= Low(cs[j], fs[j])
    BY <2>1 DEF LowerOK
  <2> QED
    BY <2>3, <2>4, <2>5
<1> QED
  BY <1>1, <1>2 DEF LowerOK
-----------------------------------------------------------------------------
(* A step that changes the function on top, and one that calls.            *)

(* The same list but for its last element.                                 *)
SameBelow(s, t) ==
  /\ IsSeq(t) /\ Len(t) = Len(s) /\ \A j \in 1..(Len(s) - 1) : t[j] = s[j]

(* A list is like itself, and like one whose last element is replaced.     *)
LEMMA SameBelowNow ==
  ASSUME NEW s, IsSeq(s), Len(s) >= 1
  PROVE  /\ SameBelow(s, s)
         /\ \A e : SameBelow(s, Append(Front(s), e)) /\ Append(Front(s), e)[Len(s)] = e
BY NowSeq DEF SameBelow

(* The function on top changes, and nothing below it.                      *)
TopStep(m, fs, ns, link, g, gs, os, to) ==
  /\ HoldsOK(m, fs, ns, link)
  /\ SameBelow(m.cis, g.cis) /\ SameBelow(fs, gs)
  /\ Agree(m, g, Low(m.cis[Len(fs)], fs[Len(fs)]))
  /\ g.cis[Len(fs)].n = m.cis[Len(fs)].n
  /\ Low(g.cis[Len(fs)], gs[Len(fs)]) = Low(m.cis[Len(fs)], fs[Len(fs)])
  /\ FrameOK(g, g.cis[Len(fs)], gs[Len(fs)])
  /\ Serving(os, to)
  /\ Len(to) = IF os[Len(os)].kind \in Helper \cup {"ctail"} THEN Len(fs) ELSE Len(fs) - 1
  /\ \A j \in 1..(Len(fs) - 1) : os[to[j]] = ns[link[j]]

(* Then all holds as before.                                               *)
LEMMA HoldsTop ==
  ASSUME NEW m, NEW fs, NEW ns, NEW link, NEW g, NEW gs, NEW os, NEW to,
         TopStep(m, fs, ns, link, g, gs, os, to)
  PROVE  HoldsOK(g, gs, os, to)
<1> DEFINE K == Len(fs)
           n == m.cis[K].n
           low == Low(m.cis[K], fs[K])
           cs == m.cis
           ds == g.cis
<1>1. /\ StackOK(m) /\ IsSeq(cs) /\ IsSeq(fs) /\ K >= 1 /\ Len(cs) = K
      /\ LowerOK(m, cs, fs, ns, link, K, n, low) /\ FrameOK(m, cs[K], fs[K])
  BY DEF HoldsOK, TopStep
<1>2. K \in Nat \ {0} /\ low \in Int
  <2>1. Len(fs) \in Nat
    BY <1>1, SeqFacts
  <2>2. Low(m.cis[K], fs[K]) \in Nat
    BY <1>1, ShapeFacts DEF FrameOK
  <2> QED
    BY <1>1, <2>1, <2>2
<1>3. /\ IsSeq(ds) /\ Len(ds) = K /\ \A j \in 1..(K - 1) : ds[j] = cs[j]
      /\ IsSeq(gs) /\ Len(gs) = K /\ \A j \in 1..(K - 1) : gs[j] = fs[j]
  BY <1>1 DEF SameBelow, TopStep
<1>4. ds[K].n = n /\ Low(ds[K], gs[K]) = low
  BY DEF TopStep
<1>5. Agree(m, g, low)
  BY DEF TopStep
<1>6. \A j \in 1..(K - 1) : ds[j] = cs[j] /\ gs[j] = fs[j] /\ os[to[j]] = ns[link[j]]
  BY <1>3 DEF TopStep
<1>7. LowerOK(m, cs, fs, ns, link, K, n, low) /\ StackOK(m)
  BY <1>1
<1> HIDE DEF n, low, K, cs, ds
<1>8. LowerOK(g, ds, gs, os, to, K, n, low)
  BY <1>2, <1>5, <1>6, <1>7, LowerUp, SMTT(30)
<1>9. StackOK(g) /\ FrameOK(g, ds[K], gs[K]) /\ Serving(os, to)
  BY <1>5 DEF Agree, TopStep, ds, K
<1>10. Len(to) = IF os[Len(os)].kind \in Helper \cup {"ctail"} THEN K ELSE K - 1
  BY DEF TopStep, K
<1>11. LowerOK(g, ds, gs, os, to, Len(gs), ds[Len(gs)].n, Low(ds[Len(gs)], gs[Len(gs)]))
  BY <1>3, <1>4, <1>8
<1>12. FrameOK(g, ds[Len(gs)], gs[Len(gs)])
  BY <1>3, <1>9
<1> QED
  BY <1>1, <1>3, <1>9, <1>10, <1>11, <1>12 DEF HoldsOK, ds

(* A C function that calls another is given one.                           *)
Callable(fn, args) ==
  FnInfo[fn].kind \in {"calls", "pcall"} => Len(args) >= 1 /\ Function(args[1])

(* The frame of a function that was called at func for n results.          *)
IsCallee(g, ci, f, func, n, fn) ==
  /\ FrameOK(g, ci, f) /\ Low(ci, f) = func /\ ci.n = n /\ f.ret = FALSE
  /\ IsLua(fn) => RunOK(g, ci, f)
  /\ ~IsLua(fn) => OpOK(g, ci, f)

(* What is called has a frame.                                             *)
LEMMA CalledFrame ==
  ASSUME NEW m, NEW g, NEW func, NEW n, NEW fn, NEW args, Ready(m, func, fn, args), Callable(fn, args),
         Entered(m, g, func, n, fn, args), NEW ci, NewCI(g, ci, func, n, fn)
  PROVE  IsCallee(g, ci, Called(fn, args), func, n, fn)
<1> DEFINE f == Called(fn, args)
           p == FnInfo[fn]
<1>1. /\ DOMAIN f = {"fn", "regs", "extra", "open", "ready", "closed", "ret", "want"}
      /\ f.fn = fn /\ f.extra = <<>> /\ f.open = -1 /\ f.ready = ~p.vararg
      /\ f.closed = FALSE /\ f.ret = FALSE
  <2>1. DOMAIN f = {"fn", "regs", "extra", "open", "ready", "closed", "ret", "want"}
    BY CalledFields, ZenonT(60)
  <2>2. f.fn = fn
    BY CalledFields, ZenonT(60)
  <2>3. f.extra = <<>>
    BY CalledFields, ZenonT(60)
  <2>4. f.open = -1
    BY CalledFields, ZenonT(60)
  <2>5. f.ready = ~p.vararg
    BY CalledFields, ZenonT(60)
  <2>6. f.closed = FALSE
    BY CalledFields, ZenonT(60)
  <2>7. f.ret = FALSE
    BY CalledFields, ZenonT(60)
  <2> QED
    BY <2>1, <2>2, <2>3, <2>4, <2>5, <2>6, <2>7
<1>0. func \in Nat /\ fn \in DOMAIN FnInfo /\ IsSeq(args) /\ p.kind = FnInfo[fn].kind
  BY DEF Ready
<1>2. /\ IsSeq(f.regs) /\ Len(f.regs) \in Nat /\ p.params <= Len(f.regs)
      /\ IsLua(fn) /\ ~p.vararg => Len(f.regs) = p.params
      /\ ~IsLua(fn) => f.regs = args
  BY <1>0, CalledRegs, GivenFacts
<1>3. /\ p.vararg \in BOOLEAN /\ p.params \in Nat /\ p.size \in Nat
      /\ IsLua(fn) => p.params <= p.size
      /\ ~IsLua(fn) => ~p.vararg
      /\ IsLua(fn) <=> p.kind = "lua"
  BY <1>0, FnFacts
<1>4. StackOK(g) /\ Has(g, func, fn) /\ InPlace(g, func + 1, f.regs) /\ g.top <= Room(g)
      /\ (~IsLua(fn) \/ p.vararg => g.top = func + 1 + Len(f.regs))
  BY DEF Entered
<1>5. /\ InfoOK(ci) /\ ci.func = func /\ ci.n = n /\ ci.nextra = 0
      /\ IsLua(fn) => func + 1 + p.size <= ci.top
      /\ ~IsLua(fn) => g.top + MinStack <= ci.top
  BY DEF NewCI
<1> HIDE DEF f, p
<1>6. ~Spread(f)
  BY <1>1 DEF Spread, p
<1>7. Low(ci, f) = func
  BY <1>5, <1>6 DEF Low
<1>8. Shape(ci, f)
  <2>1. IsSeq(f.extra)
    BY <1>1, Singles
  <2>2. p.kind \in {"calls", "pcall"} => Len(f.regs) >= 1 /\ Function(f.regs[1])
    <3>1. p.kind \in {"calls", "pcall"} => ~IsLua(fn)
      BY <1>3
    <3>2. p.kind \in {"calls", "pcall"} => Len(args) >= 1 /\ Function(args[1])
      BY <1>0 DEF Callable
    <3> QED
      BY <1>2, <3>1, <3>2
  <2>3. IsLua(fn) => ci.func + 1 + p.size <= ci.top
    BY <1>5
  <2>4. ~(f.open >= 0) /\ f.open \in Int /\ f.open >= -1
    BY <1>1
  <2>5. ~f.ready => p.vararg /\ Len(f.regs) >= p.params /\ f.open = -1
    BY <1>1, <1>2, <1>3
  <2>6. f.ready \in BOOLEAN /\ f.closed \in BOOLEAN /\ f.ret \in BOOLEAN
    BY <1>1, <1>3
  <2> QED
    BY <1>0, <1>1, <1>2, <1>5, <1>6, <1>7, <2>1, <2>2, <2>3, <2>4, <2>5, <2>6 DEF Shape, p
<1>9. FrameOK(g, ci, f)
  BY <1>1, <1>4, <1>5, <1>6, <1>8 DEF FrameOK, Placed
<1>10. RegsOK(g, ci, f) /\ End(ci, f) = func + 1 + Len(f.regs)
  BY <1>4, <1>5 DEF RegsOK, End
<1>11. ASSUME IsLua(fn) PROVE RunOK(g, ci, f)
  <2>1. Fits(f)
    BY <1>1, <1>2, <1>3, <1>11 DEF Fits, p
  <2>2. ~f.ready \/ f.open >= 0 => g.top = End(ci, f)
    <3>1. ASSUME ~f.ready PROVE p.vararg
      BY <1>1, <1>3, <3>1
    <3>2. ~(f.open >= 0)
      BY <1>1
    <3> QED
      BY <1>4, <1>10, <3>1, <3>2
  <2> QED
    BY <1>1, <1>4, <1>10, <1>11, <2>1, <2>2 DEF RunOK
<1>12. ASSUME ~IsLua(fn) PROVE OpOK(g, ci, f)
  <2>1. g.top + 3 <= ci.top
    BY <1>4, <1>5, <1>12, ExtraNat DEF StackOK, InfoOK
  <2> QED
    BY <1>1, <1>3, <1>4, <1>5, <1>10, <1>12, <2>1 DEF OpOK, p
<1> QED
  BY <1>1, <1>5, <1>7, <1>9, <1>11, <1>12 DEF f, IsCallee

(* A call: the caller waits, its activation serves it, and the callee is   *)
(* on top.                                                                 *)
CallStep(m0, fs, ns, link, m, f1, x, n, func, fn, args, g, os, to, p, gs) ==
  /\ HoldsOK(m0, fs, ns, link) /\ Len(link) = Len(fs) - 1
  /\ m.cis = m0.cis /\ Agree(m0, m, Low(m0.cis[Len(fs)], fs[Len(fs)]))
  /\ Low(m0.cis[Len(fs)], f1) = Low(m0.cis[Len(fs)], fs[Len(fs)])
  /\ OneOK(m, x, Len(fs), m0.cis[Len(fs)], f1, n, func)
  /\ Serving(os, to) /\ Longer(link, to, p) /\ os[p] = x
  /\ \A j \in 1..Len(link) : os[link[j]] = ns[link[j]]
  /\ os[Len(os)].kind = (IF IsLua(fn) THEN "body" ELSE "cfn")
  /\ gs = Append(Append(Front(fs), f1), Called(fn, args))

(* Then all holds of the callee, too.                                      *)
LEMMA HoldsPush ==
  ASSUME NEW m0, NEW fs, NEW ns, NEW link, NEW m, NEW f1, NEW x, NEW n, NEW func, NEW fn, NEW args,
         NEW g, NEW os, NEW to, NEW p, NEW gs,
         CallStep(m0, fs, ns, link, m, f1, x, n, func, fn, args, g, os, to, p, gs),
         Ready(m, func, fn, args), Callable(fn, args), Entered(m, g, func, n, fn, args)
  PROVE  /\ HoldsOK(g, gs, os, to)
         /\ TopOK(g, os[Len(os)], Len(gs), g.cis[Len(gs)], gs[Len(gs)], -1, FALSE)
<1> DEFINE K == Len(fs)
           cs == m0.cis
           c == cs[K]
           low == Low(c, fs[K])
           n0 == c.n
           h == Append(Front(fs), f1)
           e == Called(fn, args)
           ds == g.cis
<1>1. /\ StackOK(m0) /\ IsSeq(cs) /\ IsSeq(fs) /\ K >= 1 /\ Len(cs) = K
      /\ LowerOK(m0, cs, fs, ns, link, K, n0, low) /\ FrameOK(m0, c, fs[K])
  BY DEF HoldsOK, CallStep
<1>2. K \in Nat \ {0} /\ low \in Nat
  <2>1. Len(fs) \in Nat
    BY <1>1, SeqFacts
  <2>2. Low(c, fs[K]) \in Nat
    BY <1>1, ShapeFacts DEF FrameOK
  <2> QED
    BY <1>1, <2>1, <2>2
<1>3. IsSeq(h) /\ Len(h) = K /\ h[K] = f1 /\ \A j \in 1..(K - 1) : h[j] = fs[j]
  BY <1>1, NowSeq
<1>4. StackOK(m) /\ func \in Nat /\ fn \in DOMAIN FnInfo /\ IsSeq(args) /\ func \in Int /\ low \in Int
  BY <1>2 DEF Ready
<1>5. PICK ci : g.cis = Append(m.cis, ci) /\ NewCI(g, ci, func, n, fn)
  BY DEF Entered
<1>6. /\ FrameOK(g, ci, e) /\ Low(ci, e) = func /\ ci.n = n /\ e.ret = FALSE
      /\ IsLua(fn) => RunOK(g, ci, e)
      /\ ~IsLua(fn) => OpOK(g, ci, e)
  <2>1. IsCallee(g, ci, e, func, n, fn)
    BY <1>5, CalledFrame
  <2> QED
    BY <2>1 DEF IsCallee
<1>7. gs = Append(h, e) /\ ds = Append(cs, ci)
  BY <1>5 DEF CallStep
<1> HIDE DEF h, e, cs, ds
<1>8. Longer(h, gs, e) /\ Longer(cs, ds, ci)
  BY <1>1, <1>3, <1>7, AppendLonger
<1> HIDE DEF K, c, n0, low
<1>9. /\ IsSeq(gs) /\ Len(gs) = K + 1 /\ gs[K + 1] = e /\ gs[K] = f1
      /\ \A j \in 1..(K - 1) : gs[j] = fs[j]
      /\ IsSeq(ds) /\ Len(ds) = K + 1 /\ ds[K + 1] = ci /\ ds[K] = cs[K]
      /\ \A j \in 1..(K - 1) : ds[j] = cs[j]
  <2>1. (\A j \in 1..(K - 1) : j \in 1..K) /\ K \in 1..K
    BY <1>2
  <2>2. /\ IsSeq(gs) /\ Len(gs) = K + 1 /\ gs[K + 1] = e /\ \A j \in 1..K : gs[j] = h[j]
        /\ IsSeq(ds) /\ Len(ds) = K + 1 /\ ds[K + 1] = ci /\ \A j \in 1..K : ds[j] = cs[j]
    BY <1>1, <1>3, <1>8 DEF Longer
  <2> QED
    BY <1>3, <2>1, <2>2
<1>10. /\ Len(link) = K - 1 /\ Len(to) = K /\ to[K] = p /\ \A j \in 1..(K - 1) : to[j] = link[j]
  <2>1. Len(link) = K - 1 /\ Len(link) + 1 = K
    BY <1>2 DEF CallStep, K
  <2>2. Longer(link, to, p)
    BY DEF CallStep
  <2> QED
    BY <2>1, <2>2 DEF Longer
<1>11. \A j \in 1..(K - 1) : ds[j] = cs[j] /\ gs[j] = fs[j] /\ os[to[j]] = ns[link[j]]
  <2>1. \A j \in 1..(K - 1) : os[link[j]] = ns[link[j]]
    BY <1>10 DEF CallStep
  <2> QED
    BY <1>9, <1>10, <2>1
<1>12. os[to[K]] = x
  BY <1>10 DEF CallStep
<1>13. LowerOK(m, ds, gs, os, to, K, n0, low)
  <2>1. Agree(m0, m, low)
    BY DEF low, c, K, cs, CallStep
  <2>2. LowerOK(m0, cs, fs, ns, link, K, n0, low) /\ StackOK(m0)
    BY <1>1
  <2>3. K \in Nat \ {0} /\ low \in Int
    BY <1>2
  <2> QED
    BY <1>11, <2>1, <2>2, <2>3, LowerUp, SMTT(30)
<1>14. LowerOK(m, ds, gs, os, to, K + 1, n, func)
  <2>1. OneOK(m, os[to[K]], K, ds[K], gs[K], n, func)
    <3>1. OneOK(m, x, K, cs[K], f1, n, func)
      BY DEF CallStep, cs, K
    <3> QED
      BY <1>9, <1>12, <3>1
  <2>2. Low(ds[K], gs[K]) = low /\ ds[K].n = n0
    <3>1. Low(cs[K], f1) = low /\ cs[K].n = n0
      BY DEF CallStep, cs, K, low, c, n0
    <3> QED
      BY <1>9, <3>1
  <2>3. LowerOK(m, ds, gs, os, to, K, ds[K].n, Low(ds[K], gs[K]))
    BY <1>13, <2>2
  <2>4. func \in Int
    BY <1>4
  <2> QED
    BY <1>2, <2>1, <2>3, <2>4, LowerMore
<1>15. LowerOK(g, ds, gs, os, to, K + 1, n, func)
  <2>1. Agree(m, g, func) /\ K + 1 \in Nat \ {0} /\ StackOK(m) /\ func \in Int
    BY <1>2, <1>4 DEF Entered
  <2>2. \A j \in 1..(K + 1 - 1) : ds[j] = ds[j] /\ gs[j] = gs[j] /\ os[to[j]] = os[to[j]]
    OBVIOUS
  <2> DEFINE k == K + 1
  <2> HIDE DEF k
  <2>3. LowerOK(m, ds, gs, os, to, k, n, func) /\ k \in Nat \ {0}
    BY <1>14, <2>1 DEF k
  <2>4. \A j \in 1..(k - 1) : ds[j] = ds[j] /\ gs[j] = gs[j] /\ os[to[j]] = os[to[j]]
    OBVIOUS
  <2>5. LowerOK(g, ds, gs, os, to, k, n, func)
    BY <2>1, <2>3, <2>4, LowerUp
  <2> QED
    BY <2>5 DEF k
<1>16. Len(to) = IF os[Len(os)].kind \in Helper \cup {"ctail"} THEN Len(gs) ELSE Len(gs) - 1
  <2>1. os[Len(os)].kind \notin Helper \cup {"ctail"}
    BY DEF Helper, CallStep
  <2>2. K + 1 - 1 = K
    BY <1>2
  <2> QED
    BY <1>9, <1>10, <2>1, <2>2
<1>17. HoldsOK(g, gs, os, to)
  <2>1. Len(gs) >= 1
    BY <1>2, <1>9
  <2>2. StackOK(g) /\ Serving(os, to)
    BY DEF Entered, CallStep
  <2>3. ds[Len(gs)] = ci /\ gs[Len(gs)] = e /\ ci.n = n /\ Low(ci, e) = func /\ Len(gs) = K + 1
    BY <1>6, <1>9
  <2> QED
    BY <1>6, <1>9, <1>15, <1>16, <2>1, <2>2, <2>3 DEF HoldsOK, ds
<1>18. TopOK(g, os[Len(os)], Len(gs), ci, e, -1, FALSE)
  <2>1. os[Len(os)].kind = (IF IsLua(fn) THEN "body" ELSE "cfn")
    BY DEF CallStep
  <2> QED
    BY <1>6, <2>1 DEF TopOK, Entry, Helper
<1>19. ds[Len(gs)] = ci /\ gs[Len(gs)] = e
  BY <1>9
<1> QED
  BY <1>17, <1>18, <1>19 DEF ds

-----------------------------------------------------------------------------
(* The instructions of a native body: what they find, and what they leave. *)

(* f1 is a later state of the same activation of a native function.        *)
Later(f, f1) ==
  /\ DOMAIN f1 = {"fn", "regs", "extra", "open", "ready", "closed", "ret", "want"}
  /\ f1.fn = f.fn /\ f1.extra = f.extra /\ f1.ready = f.ready /\ f1.ret = f.ret
  /\ f1.closed \in BOOLEAN /\ IsSeq(f1.regs) /\ f1.open \in Int /\ f1.open >= -1
  /\ f1.open >= 0 => f1.open + 1 <= Len(f1.regs) /\ f1.open < FnInfo[f.fn].size /\ Function(f1.regs[f1.open + 1])

(* Its frame is where it was.                                              *)
LEMMA LaterFrame ==
  ASSUME NEW m, StackOK(m), NEW g, NEW c, NEW f, FrameOK(m, c, f), Agree(m, g, c.func + 1),
         NEW f1, Later(f, f1), f.ready, ~f.ret, IsLua(f.fn)
  PROVE  FrameOK(g, c, f1) /\ Low(c, f1) = Low(c, f) /\ Agree(m, g, Low(c, f))
<1>1. Shape(c, f) /\ Has(m, c.func, f.fn) /\ (Spread(f) => InPlace(m, c.func - c.nextra, f.extra))
  BY DEF FrameOK, Placed
<1>2. /\ c.func \in Nat /\ c.nextra \in Nat /\ IsSeq(f.extra) /\ (Spread(f) => c.nextra = Len(f.extra))
      /\ f.fn \in DOMAIN FnInfo /\ Low(c, f) \in Nat /\ Low(c, f) <= c.func
  BY <1>1, ShapeFacts DEF Shape
<1>3. c.func + 1 \in Int /\ c.func < c.func + 1 /\ Low(c, f) \in Int /\ Low(c, f) <= c.func + 1
  BY <1>2
<1>4. Agree(m, g, Low(c, f))
  BY <1>3, AgreeSteps
<1>5. Has(g, c.func, f.fn)
  BY <1>1, <1>3, HasStays
<1>6. ASSUME Spread(f) PROVE InPlace(g, c.func - c.nextra, f.extra)
  <2>1. c.func - c.nextra + Len(f.extra) <= c.func + 1
    BY <1>2, <1>6
  <2> QED
    BY <1>1, <1>2, <1>3, <1>6, <2>1, StaysInPlace
<1>7. Spread(f1) <=> Spread(f)
  BY DEF Spread, Later
<1>8. Low(c, f1) = Low(c, f)
  BY <1>7 DEF Low, Later
<1>9. Shape(c, f1)
  <2>1. FnInfo[f.fn].kind = "lua"
    BY DEF IsLua
  <2>2. f1.fn = f.fn /\ f1.ready /\ ~f1.ret /\ f1.extra = f.extra
    BY DEF Later
  <2>3. IsLua(f1.fn) => c.func + 1 + FnInfo[f1.fn].size <= c.top
    BY <1>1, <2>2 DEF Shape
  <2>4. IF Spread(f1) THEN c.nextra = Len(f1.extra) ELSE f1.extra = <<>>
    BY <1>1, <1>7, <2>2 DEF Shape
  <2>5. InfoOK(c) /\ Low(c, f1) \in Nat
    BY <1>1, <1>2, <1>8 DEF Shape
  <2>6. f1.ready \in BOOLEAN /\ f1.ret \in BOOLEAN
    BY <1>1, <2>2 DEF Shape, Later
  <2> QED
    BY <1>2, <2>1, <2>2, <2>3, <2>4, <2>5, <2>6 DEF Shape, Later
<1>10. Placed(g, c, f1)
  BY <1>5, <1>6, <1>7 DEF Placed, Later
<1> QED
  BY <1>4, <1>8, <1>9, <1>10 DEF FrameOK

(* What is known where a native body runs.                                 *)
Running(link) ==
  /\ HoldsOK(stk, lua, nat, link) /\ Len(link) = Len(lua) - 1
  /\ StackOK(stk) /\ IsSeq(lua) /\ Len(lua) \in Nat \ {0} /\ IsSeq(stk.cis) /\ Len(stk.cis) = Len(lua)
  /\ IsSeq(nat) /\ Len(nat) \in Nat \ {0} /\ Last(nat) = nat[Len(nat)] /\ Last(nat).kind = "body"
  /\ Frame = lua[Len(lua)] /\ Last(stk.cis) = stk.cis[Len(lua)]
  /\ FrameOK(stk, Last(stk.cis), Frame) /\ RunOK(stk, Last(stk.cis), Frame)
  /\ rax = -1 /\ rep = FALSE /\ prog \in Programs /\ fuel \in Nat
  /\ Last(stk.cis).top <= Room(stk)

(* That much is known of every state.                                      *)
LEMMA Anywhere ==
  ASSUME LoopInv, DataInv, StackHolds
  PROVE  /\ StackOK(stk) /\ IsSeq(lua) /\ Len(lua) \in Nat \ {0} /\ IsSeq(stk.cis) /\ Len(stk.cis) = Len(lua)
         /\ IsSeq(nat) /\ Len(nat) \in Nat \ {0} /\ Last(nat) = nat[Len(nat)]
         /\ Frame = lua[Len(lua)] /\ Last(stk.cis) = stk.cis[Len(lua)]
         /\ FrameOK(stk, Last(stk.cis), Frame) /\ Last(stk.cis).top <= Room(stk)
         /\ prog \in Programs /\ fuel \in Nat /\ Ordered(nat)
         /\ TopOK(stk, Last(nat), Len(lua), Last(stk.cis), Frame, rax, rep)
<1>1. PICK link : HoldsOK(stk, lua, nat, link)
  BY DEF DataInv
<1>2. /\ StackOK(stk) /\ IsSeq(lua) /\ IsSeq(stk.cis) /\ Len(stk.cis) = Len(lua) /\ Len(lua) >= 1
      /\ FrameOK(stk, stk.cis[Len(lua)], lua[Len(lua)])
  BY <1>1 DEF HoldsOK
<1>3. Len(lua) \in Nat \ {0}
  BY <1>2, SeqFacts
<1>4. Frame = lua[Len(lua)] /\ Last(stk.cis) = stk.cis[Len(lua)]
  BY <1>2 DEF Frame, Last
<1>5. Ordered(nat) /\ Len(nat) \in Nat \ {0} /\ Last(nat) = nat[Len(nat)]
  BY FitParts DEF LoopInv
<1>6. IsSeq(nat)
  BY <1>5 DEF Ordered
<1>7. Last(stk.cis).top <= Room(stk)
  <2>1. Len(lua) \in 1..Len(stk.cis)
    BY <1>2, <1>3
  <2>2. stk.cis[Len(lua)].top <= stk.last + Extra - 3
    BY <2>1 DEF StackHolds, Ceilings
  <2> QED
    BY <1>4, <2>2 DEF Room
<1>8. prog \in Programs /\ fuel \in Nat /\ TopOK(stk, Last(nat), Len(lua), Last(stk.cis), Frame, rax, rep)
  BY <1>4, <1>5 DEF DataInv
<1> QED
  BY <1>2, <1>3, <1>4, <1>5, <1>6, <1>7, <1>8

(* A native body runs.                                                     *)
LEMMA BodyFacts ==
  ASSUME LoopInv, DataInv, StackHolds, Runs("body")
  PROVE  \E link : Running(link)
<1>1. PICK link : HoldsOK(stk, lua, nat, link)
  BY DEF DataInv
<1>2. rax = -1 /\ Last(nat).kind = "body"
  BY DEF Runs
<1>3. /\ StackOK(stk) /\ IsSeq(lua) /\ Len(lua) \in Nat \ {0} /\ IsSeq(stk.cis) /\ Len(stk.cis) = Len(lua)
      /\ IsSeq(nat) /\ Len(nat) \in Nat \ {0} /\ Last(nat) = nat[Len(nat)]
      /\ Frame = lua[Len(lua)] /\ Last(stk.cis) = stk.cis[Len(lua)]
      /\ FrameOK(stk, Last(stk.cis), Frame) /\ Last(stk.cis).top <= Room(stk)
      /\ prog \in Programs /\ fuel \in Nat
      /\ TopOK(stk, Last(nat), Len(lua), Last(stk.cis), Frame, rax, rep)
  BY Anywhere
<1>4. rep = FALSE
  BY <1>2, BodyRuns DEF Runs
<1>5. RunOK(stk, Last(stk.cis), Frame)
  BY <1>2, <1>3 DEF TopOK
<1>6. Len(link) = Len(lua) - 1
  BY <1>1, <1>2, <1>3 DEF HoldsOK, Helper
<1>7. Running(link)
  BY <1>1, <1>2, <1>3, <1>4, <1>5, <1>6 DEF Running
<1> QED
  BY <1>7

(* A step of the function on top.                                          *)
LEMMA TopGoesOn ==
  ASSUME NEW link, NEW to, TopStep(stk, lua, nat, link, stk', lua', nat', to),
         prog \in Programs, prog' = prog, fuel' \in Nat,
         TopOK(stk', nat'[Len(nat')], Len(lua'), stk'.cis[Len(lua')], lua'[Len(lua')], rax', rep')
  PROVE  DataInv'
<1>1. HoldsOK(stk', lua', nat', to)
  BY HoldsTop
<1> QED
  BY <1>1 DEF DataInv

(* A step of a native body that neither calls nor returns.                 *)
LEMMA BodyGoesOn ==
  ASSUME NEW link, Running(link), NEW c1, NEW f1,
         (stk'.cis = stk.cis /\ c1 = Last(stk.cis)) \/ stk'.cis = Append(Front(stk.cis), c1),
         lua' = Now(f1), nat' = nat, rax' = rax, rep' = rep, prog' = prog, fuel' \in Nat,
         Agree(stk, stk', Low(Last(stk.cis), Frame)), c1.n = Last(stk.cis).n,
         Low(c1, f1) = Low(Last(stk.cis), Frame), FrameOK(stk', c1, f1), RunOK(stk', c1, f1)
  PROVE  DataInv'
<1> DEFINE K == Len(lua)
<1>1. /\ HoldsOK(stk, lua, nat, link) /\ Len(link) = K - 1
      /\ IsSeq(lua) /\ K \in Nat \ {0} /\ IsSeq(stk.cis) /\ Len(stk.cis) = K
      /\ Last(nat) = nat[Len(nat)] /\ Last(nat).kind = "body"
      /\ Frame = lua[K] /\ Last(stk.cis) = stk.cis[K] /\ rax = -1 /\ rep = FALSE /\ prog \in Programs
  BY DEF Running
<1>2. SameBelow(stk.cis, stk'.cis) /\ stk'.cis[K] = c1
  <2> DEFINE s == stk.cis
             t == stk'.cis
  <2>1. IsSeq(s) /\ Len(s) >= 1 /\ Len(s) = K /\ Last(stk.cis) = s[K]
    BY <1>1
  <2>2. (t = s /\ c1 = s[K]) \/ t = Append(Front(s), c1)
    BY <1>1
  <2> HIDE DEF s, t, K
  <2>3. SameBelow(s, s) /\ SameBelow(s, Append(Front(s), c1)) /\ Append(Front(s), c1)[Len(s)] = c1
    BY <2>1, SameBelowNow
  <2>4. SameBelow(s, t) /\ t[K] = c1
    BY <2>1, <2>2, <2>3
  <2> QED
    BY <2>4 DEF s, t
<1>3. SameBelow(lua, lua') /\ lua'[K] = f1 /\ Len(lua') = K
  BY <1>1, SameBelowNow, NowSeq DEF Now
<1>4. Serving(nat', link) /\ \A j \in 1..(K - 1) : nat'[link[j]] = nat[link[j]]
  BY <1>1 DEF HoldsOK
<1>5. nat'[Len(nat')].kind = "body"
  BY <1>1
<1>6. TopStep(stk, lua, nat, link, stk', lua', nat', link)
  BY <1>1, <1>2, <1>3, <1>4, <1>5 DEF TopStep, Helper
<1>7. TopOK(stk', nat'[Len(nat')], K, c1, f1, rax', rep')
  <2>1. ~f1.ret
    BY DEF RunOK
  <2> QED
    BY <1>1, <1>5, <2>1 DEF TopOK, Helper, Entry
<1> QED
  BY <1>1, <1>2, <1>3, <1>6, <1>7, TopGoesOn

(* The numbers of a native frame.                                          *)
Numbers ==
  /\ Last(stk.cis).func \in Nat /\ Last(stk.cis).top \in Nat /\ Base(stk) = Last(stk.cis).func + 1
  /\ Last(stk.cis).nextra \in Nat
  /\ IsSeq(Frame.regs) /\ Live \in Nat /\ Live = Len(Frame.regs) /\ FrameSize \in Nat /\ Here = Base(stk) + Live
  /\ Base(stk) + FrameSize <= Last(stk.cis).top /\ Last(stk.cis).top <= Room(stk)
  /\ stk.top \in Nat /\ stk.top <= Room(stk) /\ Room(stk) \in Nat /\ Room(stk) + 3 = stk.last + Extra
  /\ stk.last + Extra \in Nat
  /\ Base(stk) \in Nat /\ Here \in Nat /\ Base(stk) <= Here
  /\ Base(stk) + FrameSize <= Room(stk) /\ Base(stk) + FrameSize <= stk.last + Extra
  /\ Frame.ready /\ Frame.open = -1 => Live <= FrameSize
  /\ Frame.fn \in DOMAIN FnInfo /\ IsLua(Frame.fn) /\ ~Frame.ret
  /\ Frame.closed \in BOOLEAN /\ Frame.ready \in BOOLEAN /\ Frame.open \in Int /\ Frame.open >= -1
  /\ DOMAIN Frame = {"fn", "regs", "extra", "open", "ready", "closed", "ret", "want"}
  /\ InPlace(stk, Base(stk), Frame.regs) /\ IsSeq(Frame.extra)
  /\ ~Frame.ready \/ Frame.open >= 0 => stk.top = Base(stk) + Live
  /\ Frame.open >= 0 => Frame.ready
  /\ Frame.open >= 0 => Frame.open + 1 <= Live /\ Frame.open < FrameSize /\ Function(Frame.regs[Frame.open + 1])

(* They are right where a native body runs.                                *)
LEMMA RunningNumbers == ASSUME NEW link, Running(link) PROVE Numbers
<1> DEFINE c == Last(stk.cis)
           f == Frame
<1>1. StackOK(stk) /\ FrameOK(stk, c, f) /\ RunOK(stk, c, f) /\ c.top <= Room(stk)
  BY DEF Running
<1>2. Shape(c, f)
  BY <1>1 DEF FrameOK
<1>3. /\ c.func \in Nat /\ c.top \in Nat /\ c.nextra \in Nat /\ f.fn \in DOMAIN FnInfo
      /\ IsSeq(f.regs) /\ Len(f.regs) \in Nat /\ IsSeq(f.extra) /\ f.open \in Int /\ f.open >= -1
      /\ f.ready \in BOOLEAN /\ f.closed \in BOOLEAN /\ FnInfo[f.fn].size \in Nat
  BY <1>2, ShapeFacts
<1>4. /\ ~f.ret /\ IsLua(f.fn) /\ InPlace(stk, c.func + 1, f.regs) /\ stk.top <= Room(stk)
      /\ f.ready /\ f.open = -1 => Len(f.regs) <= FnInfo[f.fn].size
      /\ ~f.ready \/ f.open >= 0 => stk.top = c.func + 1 + Len(f.regs)
  BY <1>1 DEF RunOK, RegsOK, Fits, End
<1>5. /\ DOMAIN f = {"fn", "regs", "extra", "open", "ready", "closed", "ret", "want"}
      /\ c.func + 1 + FnInfo[f.fn].size <= c.top
      /\ f.open >= 0 => f.ready
      /\ f.open >= 0 => f.open + 1 <= Len(f.regs) /\ f.open < FnInfo[f.fn].size /\ Function(f.regs[f.open + 1])
  BY <1>2, <1>4 DEF Shape
<1>6. stk.top \in Nat /\ stk.last \in Nat
  BY <1>1 DEF StackOK
<1>7. Room(stk) \in Nat /\ Room(stk) + 3 = stk.last + Extra /\ stk.last + Extra \in Nat
  BY <1>6, ExtraNat DEF Room
<1>8. Base(stk) = c.func + 1
  BY DEF Base
<1>9. Live = Len(f.regs) /\ FrameSize = FnInfo[f.fn].size /\ Here = Base(stk) + Live
  BY DEF Live, FrameSize, Here
<1> HIDE DEF c, f
<1>10. /\ Base(stk) \in Nat /\ Here \in Nat /\ Base(stk) <= Here
       /\ Base(stk) + FrameSize <= Room(stk) /\ Base(stk) + FrameSize <= stk.last + Extra
  <2> DEFINE b == Base(stk)
             e == stk.last + Extra
             t == c.top
             s == FrameSize
  <2>1. /\ b \in Nat /\ Here = b + Live /\ Live \in Nat /\ s \in Nat /\ t \in Nat /\ e \in Nat
        /\ b + s <= t /\ t <= Room(stk) /\ Room(stk) \in Nat /\ Room(stk) + 3 = e
    BY <1>1, <1>3, <1>5, <1>7, <1>8, <1>9
  <2> HIDE DEF b, e, t, s
  <2>2. b \in Nat /\ Here \in Nat /\ b <= Here /\ b + s <= Room(stk) /\ b + s <= e
    BY <2>1
  <2> QED
    BY <2>2 DEF b, e, s
<1> QED
  BY <1>1, <1>3, <1>4, <1>5, <1>6, <1>7, <1>8, <1>9, <1>10 DEF Numbers, c, f

(* Values put behind the registers of the function that runs.              *)
LEMMA PushedInPlace ==
  ASSUME StackOK(stk), Numbers, Frame.ready, Frame.open = -1,
         NEW vs, IsSeq(vs), Live + Len(vs) <= FrameSize
  PROVE  /\ StackOK(Pushed(vs)) /\ Pushed(vs).top = stk.top /\ Pushed(vs).last = stk.last
         /\ Pushed(vs).cis = stk.cis /\ Agree(stk, Pushed(vs), Here)
         /\ InPlace(Pushed(vs), Base(stk), Frame.regs) /\ InPlace(Pushed(vs), Here, vs)
         /\ InPlace(Pushed(vs), Base(stk), Frame.regs \o vs)
         /\ Here \in Nat /\ Len(vs) \in Nat
<1> DEFINE m == Pushed(vs)
<1>1. /\ Base(stk) \in Nat /\ Live \in Nat /\ Here = Base(stk) + Live /\ FrameSize \in Nat
      /\ Base(stk) + FrameSize <= stk.last + Extra /\ IsSeq(Frame.regs) /\ Live = Len(Frame.regs)
      /\ InPlace(stk, Base(stk), Frame.regs)
  BY DEF Numbers
<1>2. Len(vs) \in Nat
  BY SeqFacts
<1>3. Here \in Nat /\ Here + Len(vs) <= stk.last + Extra
  <2> DEFINE e == stk.last + Extra
             b == Base(stk)
  <2>1. b \in Nat /\ Here = b + Live /\ FrameSize \in Nat /\ b + FrameSize <= e /\ e \in Nat
    BY <1>1 DEF Numbers
  <2> HIDE DEF e, b
  <2>2. Here \in Nat /\ Here + Len(vs) <= e
    BY <1>1, <1>2, <2>1
  <2> QED
    BY <2>2 DEF e
<1>4. /\ StackOK(m) /\ m.top = stk.top /\ m.last = stk.last
      /\ m.cis = stk.cis /\ Agree(stk, m, Here) /\ InPlace(m, Here, vs)
  BY <1>3, PutDoes DEF Pushed
<1>5. InPlace(m, Base(stk), Frame.regs)
  <2>1. Base(stk) + Len(Frame.regs) <= Here /\ Here \in Int
    BY <1>1, <1>3
  <2> HIDE DEF m
  <2> QED
    BY <1>1, <1>4, <2>1, StaysInPlace
<1>6. InPlace(m, Base(stk), Frame.regs \o vs)
  <2>1. InPlace(m, Base(stk) + Len(Frame.regs), vs)
    BY <1>1, <1>4
  <2> HIDE DEF m
  <2> QED
    BY <1>1, <1>4, <1>5, <2>1, InPlaceJoined
<1> QED
  BY <1>2, <1>3, <1>4, <1>5, <1>6

(* The frame after an instruction that neither calls nor returns.          *)
LEMMA BodyDone ==
  ASSUME NEW link, Running(link), Frame.ready, NEW f1, Later(Frame, f1),
         stk'.cis = stk.cis, lua' = Now(f1), nat' = nat, rax' = rax, rep' = rep, prog' = prog, fuel' \in Nat,
         Agree(stk, stk', Base(stk)), InPlace(stk', Base(stk), f1.regs), stk'.top <= Room(stk'),
         f1.open = -1 => Len(f1.regs) <= FrameSize, f1.open >= 0 => stk'.top = Base(stk) + Len(f1.regs)
  PROVE  DataInv'
<1> DEFINE c == Last(stk.cis)
<1>1. StackOK(stk) /\ FrameOK(stk, c, Frame) /\ ~Frame.ret /\ IsLua(Frame.fn)
  BY DEF Running, RunOK
<1>2. Base(stk) = c.func + 1
  BY DEF Base
<1> HIDE DEF c
<1>3. FrameOK(stk', c, f1) /\ Low(c, f1) = Low(c, Frame) /\ Agree(stk, stk', Low(c, Frame))
  BY <1>1, <1>2, LaterFrame
<1>4. RunOK(stk', c, f1)
  <2>1. ~f1.ret /\ IsLua(f1.fn) /\ f1.ready
    BY <1>1 DEF Later
  <2>2. RegsOK(stk', c, f1) /\ Fits(f1) /\ (f1.open >= 0 => stk'.top = End(c, f1))
    BY <1>2 DEF RegsOK, Fits, End, FrameSize, Later
  <2> QED
    BY <2>1, <2>2 DEF RunOK
<1>5. c = Last(stk.cis)
  BY DEF c
<1> QED
  BY <1>3, <1>4, <1>5, BodyGoesOn

(* f with other registers and another open list.                           *)
LEMMA NewRegs ==
  ASSUME NEW f, DOMAIN f = {"fn", "regs", "extra", "open", "ready", "closed", "ret", "want"},
         f.closed \in BOOLEAN, NEW r, IsSeq(r), NEW o \in Int, o >= -1,
         o >= 0 => o + 1 <= Len(r) /\ o < FnInfo[f.fn].size /\ Function(r[o + 1])
  PROVE  /\ Later(f, [f EXCEPT !.regs = r, !.open = o])
         /\ [f EXCEPT !.regs = r, !.open = o].regs = r /\ [f EXCEPT !.regs = r, !.open = o].open = o
BY DEF Later

(* f with other registers.                                                 *)
LEMMA OnlyRegs ==
  ASSUME NEW f, DOMAIN f = {"fn", "regs", "extra", "open", "ready", "closed", "ret", "want"},
         f.closed \in BOOLEAN, NEW r, IsSeq(r), f.open = -1
  PROVE  Later(f, [f EXCEPT !.regs = r]) /\ [f EXCEPT !.regs = r].regs = r /\ [f EXCEPT !.regs = r].open = -1
BY DEF Later

(* An instruction that may be executed.                                    *)
LEMMA Executing ==
  ASSUME LoopInv, DataInv, StackHolds, NEW op, Executes(op)
  PROVE  /\ (\E link : Running(link)) /\ Numbers /\ StackOK(stk)
         /\ Frame.ready /\ ~Frame.closed /\ Frame.open = -1 /\ Live <= FrameSize
         /\ fuel \in Nat /\ fuel > 0 /\ fuel' = fuel - 1 /\ fuel' \in Nat /\ op \in prog.ops
<1>1. /\ Runs("body") /\ op \in prog.ops /\ fuel > 0
      /\ Frame.ready /\ ~Frame.closed /\ Frame.open = -1 /\ fuel' = fuel - 1
  BY DEF Executes
<1>2. PICK link : Running(link)
  BY <1>1, BodyFacts
<1>3. Numbers /\ fuel \in Nat /\ StackOK(stk)
  BY <1>2, RunningNumbers DEF Running
<1>4. fuel' \in Nat
  BY <1>1, <1>3
<1>5. Live <= FrameSize
  BY <1>1, <1>3 DEF Numbers
<1> QED
  BY <1>1, <1>2, <1>3, <1>4, <1>5

(* Agreement below the registers, and below a lower slot.                  *)
LEMMA AgreeBelow ==
  ASSUME NEW m, StackOK(m), NEW g, NEW b \in Int, Agree(m, g, b), NEW d \in Int, d <= b
  PROVE  Agree(m, g, d)
BY AgreeSteps

(* Registers are loaded.                                                   *)
LEMMA PushKeeps ==
  ASSUME LoopInv, DataInv, StackHolds, NEW op, Executes(op), NEW vs, IsSeq(vs), Live + Len(vs) <= FrameSize,
         stk' = Pushed(vs), lua' = Holding(vs), nat' = nat, rax' = rax, rep' = rep, prog' = prog
  PROVE  DataInv'
<1>2. /\ Numbers /\ StackOK(stk) /\ Frame.ready /\ ~Frame.closed /\ Frame.open = -1 /\ Live <= FrameSize
      /\ fuel \in Nat /\ fuel' \in Nat
  BY Executing
<1>3. PICK link : Running(link)
  BY Executing
<1> DEFINE r == Frame.regs \o vs
           f1 == [Frame EXCEPT !.regs = r]
<1>5. lua' = Now(f1)
  BY DEF Holding
<1>6. /\ Live \in Nat /\ FrameSize \in Nat /\ IsSeq(Frame.regs) /\ Live = Len(Frame.regs)
      /\ Base(stk) \in Int /\ Here \in Int /\ Base(stk) <= Here
      /\ stk.top <= Room(stk)
  BY <1>2 DEF Numbers
<1>8. /\ stk'.top = stk.top /\ stk'.last = stk.last /\ stk'.cis = stk.cis /\ Agree(stk, stk', Here)
      /\ InPlace(stk', Base(stk), r)
  BY <1>2, PushedInPlace
<1>9. IsSeq(r) /\ Len(r) <= FrameSize
  <2>1. IsSeq(r) /\ Len(r) = Len(Frame.regs) + Len(vs)
    BY <1>6, Joined
  <2> QED
    BY <1>6, <2>1
<1> HIDE DEF r
<1>10. Later(Frame, f1) /\ f1.regs = r /\ f1.open = -1
  BY <1>2, <1>9, OnlyRegs DEF Numbers
<1> HIDE DEF f1
<1>11. Agree(stk, stk', Base(stk)) /\ stk'.top <= Room(stk')
  BY <1>2, <1>6, <1>8, AgreeBelow DEF Room
<1>12. ~(f1.open >= 0)
  BY <1>10
<1> QED
  BY <1>2, <1>3, <1>5, <1>8, <1>9, <1>10, <1>11, <1>12, BodyDone

(* One of them.                                                            *)
LEMMA LoadKeeps ==
  ASSUME LoopInv, DataInv, StackHolds, Load
  PROVE  DataInv'
<1> DEFINE vs == Tokens(1)
<1>1. /\ Executes("load") /\ Live < FrameSize /\ stk' = Pushed(vs) /\ lua' = Holding(vs)
      /\ nat' = nat /\ rax' = rax /\ rep' = rep /\ prog' = prog
  BY DEF Load
<1>2. fuel \in Nat /\ Numbers
  BY <1>1, Executing
<1>3. IsSeq(vs) /\ Len(vs) = 1
  BY <1>2, TokensSeq
<1> HIDE DEF vs
<1>4. Live + Len(vs) <= FrameSize
  BY <1>1, <1>2, <1>3 DEF Numbers
<1> QED
  BY <1>1, <1>3, <1>4, PushKeeps

(* A table is made in one, and the collector may run.                      *)
LEMMA NewTableKeeps ==
  ASSUME LoopInv, DataInv, StackHolds, NewTable
  PROVE  DataInv'
<1> DEFINE vs == Tokens(1)
           p == Pushed(vs)
           t == Max({stk.top, Here + 1})
           m == Topped(p, t)
<1>1. /\ Executes("table") /\ Live < FrameSize /\ stk' \in {m, Collected(m)} /\ lua' = Holding(vs)
      /\ nat' = nat /\ rax' = rax /\ rep' = rep /\ prog' = prog
  BY DEF NewTable
<1>2. /\ Numbers /\ StackOK(stk) /\ Frame.ready /\ ~Frame.closed /\ Frame.open = -1 /\ Live <= FrameSize
      /\ fuel \in Nat /\ fuel' \in Nat
  BY <1>1, Executing
<1>3. PICK link : Running(link)
  BY <1>1, Executing
<1>4. IsSeq(vs) /\ Len(vs) = 1
  BY <1>2, TokensSeq
<1> DEFINE r == Frame.regs \o vs
           f1 == [Frame EXCEPT !.regs = r]
<1>5. lua' = Now(f1)
  BY <1>1 DEF Holding
<1> HIDE DEF vs
<1>6. /\ Live \in Nat /\ FrameSize \in Nat /\ IsSeq(Frame.regs) /\ Live = Len(Frame.regs)
      /\ Base(stk) \in Nat /\ Here \in Nat /\ Base(stk) <= Here /\ Here = Base(stk) + Live
      /\ stk.top <= Room(stk) /\ stk.top \in Nat /\ Room(stk) \in Nat /\ Base(stk) + FrameSize <= Room(stk)
  BY <1>2 DEF Numbers
<1>7. Live + Len(vs) <= FrameSize
  BY <1>1, <1>4, <1>6
<1>8. /\ StackOK(p) /\ p.top = stk.top /\ p.last = stk.last /\ p.cis = stk.cis /\ Agree(stk, p, Here)
      /\ InPlace(p, Base(stk), r)
  BY <1>2, <1>4, <1>7, PushedInPlace
<1>9. IsSeq(r) /\ Len(r) <= FrameSize /\ Len(r) = Live + 1
  <2>1. IsSeq(r) /\ Len(r) = Len(Frame.regs) + Len(vs)
    BY <1>4, <1>6, Joined
  <2> QED
    BY <1>4, <1>6, <1>7, <2>1
<1> HIDE DEF r, p
<1>10. Later(Frame, f1) /\ f1.regs = r /\ f1.open = -1
  BY <1>2, <1>9, OnlyRegs DEF Numbers
<1> HIDE DEF f1
<1>11. t \in Nat /\ t >= Here + 1 /\ t <= Room(stk)
  <2>1. t = IF stk.top >= Here + 1 THEN stk.top ELSE Here + 1
    BY <1>6, MaxOfTwo
  <2>2. Here + 1 <= Base(stk) + FrameSize
    BY <1>1, <1>6
  <2> HIDE DEF t
  <2> QED
    BY <1>6, <2>1, <2>2
<1> HIDE DEF t
<1>12. SameSlots(p, m) /\ m.top = t /\ m.cis = stk.cis
  BY <1>8, <1>11, ToppedDoes
<1>13. StackOK(m) /\ m.last = stk.last /\ Agree(stk, m, Base(stk)) /\ InPlace(m, Base(stk), r)
  <2>1. StackOK(m) /\ m.last = stk.last
    BY <1>8, <1>12 DEF SameSlots
  <2>2. Agree(p, m, Here) /\ InPlace(m, Base(stk), r)
    BY <1>8, <1>12, SlotsKept
  <2>3. Agree(stk, m, Here)
    BY <1>2, <1>6, <1>8, <2>2, AgreeSteps
  <2> QED
    BY <1>2, <1>6, <2>1, <2>2, <2>3, AgreeBelow
<1> HIDE DEF m
<1>14. /\ stk'.top = t /\ stk'.last = stk.last /\ stk'.cis = stk.cis
       /\ Agree(stk, stk', Base(stk)) /\ InPlace(stk', Base(stk), r)
  <2>1. CASE stk' = m
    BY <1>12, <1>13, <2>1
  <2>2. CASE stk' = Collected(m)
    <3> DEFINE h == Collected(m)
    <3>1. StackOK(h) /\ h.top = m.top /\ h.last = m.last /\ h.cis = m.cis /\ Agree(m, h, m.top)
      BY <1>13, CollectedDoes
    <3> HIDE DEF h
    <3>2. InPlace(h, Base(stk), r)
      <4>1. Base(stk) + Len(r) <= t
        BY <1>6, <1>9, <1>11
      <4> QED
        BY <1>9, <1>11, <1>12, <1>13, <3>1, <4>1, StaysInPlace
    <3>3. Agree(m, h, Base(stk))
      <4>1. Base(stk) <= t
        BY <1>6, <1>11
      <4> QED
        BY <1>6, <1>11, <1>12, <1>13, <3>1, <4>1, AgreeBelow
    <3>4. Agree(stk, h, Base(stk))
      BY <1>2, <1>6, <1>13, <3>3, AgreeSteps
    <3>5. stk' = h
      BY <2>2 DEF h
    <3> QED
      BY <1>12, <1>13, <3>1, <3>2, <3>4, <3>5
  <2> QED
    BY <1>1, <2>1, <2>2
<1>15. stk'.top <= Room(stk') /\ ~(f1.open >= 0)
  BY <1>10, <1>11, <1>14 DEF Room
<1> QED
  BY <1>1, <1>2, <1>3, <1>5, <1>9, <1>10, <1>14, <1>15, BodyDone

(* A list with one more value.                                             *)
LEMMA OneMore ==
  ASSUME NEW s, IsSeq(s), NEW e
  PROVE  /\ IsSeq(s \o <<e>>) /\ Len(s \o <<e>>) = Len(s) + 1 /\ (s \o <<e>>)[Len(s) + 1] = e
         /\ \A i \in 1..Len(s) : (s \o <<e>>)[i] = s[i]
<1> DEFINE t == <<e>>
<1>1. IsSeq(t) /\ Len(t) = 1 /\ t[1] = e
  BY Singles
<1> HIDE DEF t
<1>2. IsSeq(s \o t) /\ Len(s \o t) = Len(s) + Len(t) /\ (\A i \in 1..Len(s) : (s \o t)[i] = s[i])
  BY <1>1, Joined
<1>3. \A i \in 1..Len(t) : (s \o t)[Len(s) + i] = t[i]
  <2>1. IsSeq(t)
    BY <1>1
  <2> QED
    BY <2>1, Joined
<1>4. (s \o t)[Len(s) + 1] = e
  <2>1. 1 \in 1..Len(t)
    BY <1>1
  <2> QED
    BY <1>1, <1>3, <2>1
<1> QED
  BY <1>1, <1>2, <1>4 DEF t

(* What "..." stands for is read from below the frame.                     *)
LEMMA ExtrasRead ==
  ASSUME NEW link, Running(link), Frame.ready, FnInfo[Frame.fn].vararg,
         NEW m, Agree(stk, m, Base(stk)), m.cis = stk.cis
  PROVE  Extras(m) = Frame.extra /\ IsSeq(Frame.extra) /\ Last(stk.cis).nextra = Len(Frame.extra)
         /\ Len(Frame.extra) \in Nat
<1> DEFINE c == Last(stk.cis)
<1>1. StackOK(stk) /\ FrameOK(stk, c, Frame) /\ ~Frame.ret
  BY DEF Running, RunOK
<1>2. Spread(Frame)
  BY <1>1 DEF Spread
<1>3. InPlace(stk, c.func - c.nextra, Frame.extra) /\ c.nextra = Len(Frame.extra) /\ Shape(c, Frame)
  BY <1>1, <1>2 DEF FrameOK, Placed, Shape
<1>4. c.func \in Nat /\ IsSeq(Frame.extra) /\ Len(Frame.extra) \in Nat
  BY <1>3, ShapeFacts
<1>5. c.func - c.nextra + Len(Frame.extra) <= Base(stk) /\ Base(stk) \in Int
  BY <1>3, <1>4 DEF Base
<1>6. InPlace(m, c.func - c.nextra, Frame.extra)
  BY <1>1, <1>3, <1>4, <1>5, StaysInPlace
<1>7. Read(m, c.func - c.nextra, Len(Frame.extra)) = Frame.extra
  BY <1>4, <1>6, ReadInPlace DEF Agree
<1> QED
  BY <1>3, <1>4, <1>7 DEF Extras

(* "..." into a fixed number of registers.                                 *)
LEMMA VarargKeeps ==
  ASSUME LoopInv, DataInv, StackHolds, NEW n \in Counts, Vararg(n)
  PROVE  DataInv'
<1> DEFINE vs == Adjusted(Frame.extra, n)
<1>1. /\ Executes("vararg") /\ FnInfo[Frame.fn].vararg /\ Live + n <= FrameSize
      /\ stk' \in GetVarargs(stk, Here, n) /\ lua' = Holding(vs)
      /\ nat' = nat /\ rax' = rax /\ rep' = rep /\ prog' = prog
  BY DEF Vararg
<1>2. n \in Nat
  BY CallsAssumption
<1>3. PICK link : Running(link)
  BY <1>1, Executing
<1>4. StackOK(stk) /\ Frame.ready
  BY <1>1, Executing
<1>5. Extras(stk) = Frame.extra /\ IsSeq(Frame.extra)
  BY <1>1, <1>3, <1>4, AgreeSteps, ExtrasRead
<1>6. stk' = Pushed(vs)
  BY <1>1, <1>2, <1>5 DEF GetVarargs, Pushed, MULTRET
<1>7. IsSeq(vs) /\ Len(vs) = n
  BY <1>2, <1>5, AdjustedSeq DEF MULTRET
<1> HIDE DEF vs
<1> QED
  BY <1>1, <1>6, <1>7, PushKeeps

(* A table has taken an open list.                                         *)
LEMMA SetListKeeps ==
  ASSUME LoopInv, DataInv, StackHolds, SetList
  PROVE  DataInv'
<1> DEFINE r == SubSeq(Frame.regs, 1, Frame.open + 1)
           f1 == [Frame EXCEPT !.regs = r, !.open = -1]
<1>1. /\ Runs("body") /\ Frame.open >= 0 /\ lua' = Now(f1) /\ stk' = stk /\ nat' = nat /\ rax' = rax
      /\ rep' = rep /\ prog' = prog /\ fuel' = fuel
  BY DEF SetList, Consumes
<1>2. PICK link : Running(link)
  BY <1>1, BodyFacts
<1>3. Numbers /\ StackOK(stk) /\ fuel' \in Nat
  BY <1>1, <1>2, RunningNumbers DEF Running
<1>4. /\ IsSeq(Frame.regs) /\ Live \in Nat /\ Live = Len(Frame.regs) /\ Frame.open \in Nat /\ Frame.ready
      /\ Frame.open + 1 <= Live /\ Frame.open < FrameSize /\ FrameSize \in Nat
      /\ InPlace(stk, Base(stk), Frame.regs) /\ Base(stk) \in Nat /\ stk.top <= Room(stk)
  BY <1>1, <1>3 DEF Numbers
<1>5. IsSeq(r) /\ Len(r) = Frame.open + 1
  BY <1>4, Beginning
<1>6. InPlace(stk, Base(stk), r)
  <2> DEFINE a == 1
             b == Frame.open + 1
  <2>1. a \in 1..(Len(Frame.regs) + 1) /\ b \in (a - 1)..Len(Frame.regs) /\ Base(stk) + a - 1 = Base(stk)
    BY <1>4
  <2>2. InPlace(stk, Base(stk) + a - 1, SubSeq(Frame.regs, a, b))
    <3> HIDE DEF a, b
    <3> QED
      BY <1>3, <1>4, <2>1, InPlacePart
  <2> QED
    BY <2>1, <2>2
<1> HIDE DEF r
<1>7. Later(Frame, f1) /\ f1.regs = r /\ f1.open = -1
  <2> DEFINE o == -1
  <2>1. o \in Int /\ o >= -1 /\ ~(o >= 0)
    OBVIOUS
  <2> HIDE DEF o
  <2>2. DOMAIN Frame = {"fn", "regs", "extra", "open", "ready", "closed", "ret", "want"} /\ Frame.closed \in BOOLEAN
    BY <1>3 DEF Numbers
  <2> DEFINE h == [Frame EXCEPT !.regs = r, !.open = o]
  <2>3. Later(Frame, h) /\ h.regs = r /\ h.open = o
    BY <1>5, <2>1, <2>2, NewRegs
  <2> QED
    BY <2>3 DEF o
<1> HIDE DEF f1
<1>8. stk'.cis = stk.cis /\ Agree(stk, stk', Base(stk)) /\ InPlace(stk', Base(stk), f1.regs)
      /\ stk'.top <= Room(stk')
  BY <1>1, <1>3, <1>4, <1>6, <1>7, AgreeSteps
<1>9. Len(f1.regs) <= FrameSize /\ ~(f1.open >= 0)
  BY <1>4, <1>5, <1>7
<1> QED
  BY <1>1, <1>2, <1>3, <1>4, <1>7, <1>8, <1>9, BodyDone

(* "..." at the end of a list: whatever the stack has room for.            *)
LEMMA OpenVarargKeeps ==
  ASSUME LoopInv, DataInv, StackHolds, NEW fn \in prog.fns, OpenVararg(fn)
  PROVE  DataInv'
<1> DEFINE e == Frame.extra
           x == Last(stk.cis).nextra
           where == Here + 1
           m == Pushed(<<fn>>)
           r0 == Frame.regs \o <<fn>>
           r == r0 \o e
           f1 == [Frame EXCEPT !.regs = r, !.open = Live]
<1>1. /\ Executes("dots") /\ TakesAnything(fn) /\ FnInfo[Frame.fn].vararg /\ Live + 2 <= FrameSize
      /\ stk' \in GetVarargs(m, where, MULTRET) /\ lua' = Now(f1)
      /\ nat' = nat /\ rax' = rax /\ rep' = rep /\ prog' = prog
  BY DEF OpenVararg
<1>2. /\ Numbers /\ StackOK(stk) /\ Frame.ready /\ ~Frame.closed /\ Frame.open = -1 /\ Live <= FrameSize
      /\ fuel \in Nat /\ fuel' \in Nat /\ "dots" \in prog.ops
  BY <1>1, Executing
<1>3. PICK link : Running(link)
  BY <1>1, Executing
<1>4. /\ Live \in Nat /\ FrameSize \in Nat /\ IsSeq(Frame.regs) /\ Live = Len(Frame.regs)
      /\ Base(stk) \in Nat /\ Here \in Nat /\ Base(stk) <= Here /\ Here = Base(stk) + Live
      /\ stk.top \in Nat
      /\ DOMAIN Frame = {"fn", "regs", "extra", "open", "ready", "closed", "ret", "want"} /\ Frame.closed \in BOOLEAN
  BY <1>2 DEF Numbers
<1>5. Base(stk) + FrameSize <= stk.top
  BY <1>1, <1>2 DEF StackHolds, KeptBelow, Executes
<1>6. where \in Nat /\ where <= stk.top /\ where = Here + 1
  BY <1>1, <1>4, <1>5
<1>7. IsSeq(<<fn>>) /\ Len(<<fn>>) = 1 /\ <<fn>>[1] = fn
  BY Singles
<1>8. /\ StackOK(m) /\ m.top = stk.top /\ m.cis = stk.cis /\ Agree(stk, m, Here) /\ InPlace(m, Base(stk), r0)
  <2> DEFINE vs == <<fn>>
  <2>1. IsSeq(vs) /\ Live + Len(vs) <= FrameSize
    BY <1>1, <1>4, <1>7
  <2> HIDE DEF vs
  <2>2. /\ StackOK(Pushed(vs)) /\ Pushed(vs).top = stk.top /\ Pushed(vs).cis = stk.cis /\ Agree(stk, Pushed(vs), Here)
        /\ InPlace(Pushed(vs), Base(stk), Frame.regs \o vs)
    BY <1>2, <2>1, PushedInPlace
  <2> QED
    BY <2>2 DEF vs
<1>9. IsSeq(r0) /\ Len(r0) = Live + 1 /\ r0[Live + 1] = fn
  <2> DEFINE s == Frame.regs
  <2>1. IsSeq(s) /\ Len(s) = Live
    BY <1>4
  <2> HIDE DEF s
  <2>2. IsSeq(s \o <<fn>>) /\ Len(s \o <<fn>>) = Len(s) + 1 /\ (s \o <<fn>>)[Len(s) + 1] = fn
    BY <2>1, OneMore
  <2> QED
    BY <2>1, <2>2 DEF s
<1> HIDE DEF r0, m
<1>10. PICK g \in CheckStackGC(m, x) : stk' = Put(Topped(g, where + x), where, Extras(g))
  <2>1. Last(m.cis) = Last(stk.cis)
    BY <1>8
  <2> QED
    BY <1>1, <2>1 DEF GetVarargs
<1>11. IsSeq(e) /\ x = Len(e) /\ Len(e) \in Nat
  <2>1. Agree(stk, stk, Base(stk))
    BY <1>2, AgreeSteps
  <2> QED
    BY <1>1, <1>2, <1>3, <2>1, ExtrasRead
<1>12. StackOK(g) /\ g.top = m.top /\ g.cis = m.cis /\ Agree(m, g, m.top) /\ g.last >= m.top + x
  <2>1. x \in Int
    BY <1>11
  <2> HIDE DEF x
  <2> QED
    BY <1>8, <1>10, <2>1, CheckDoes
<1>13. Agree(m, g, where) /\ Agree(m, g, Base(stk)) /\ Agree(stk, g, Base(stk))
  <2>1. where <= m.top /\ m.top \in Int /\ Base(stk) <= m.top /\ Base(stk) \in Int /\ where \in Int
    BY <1>4, <1>6, <1>8
  <2> HIDE DEF where
  <2>2. Agree(m, g, where) /\ Agree(m, g, Base(stk))
    BY <1>8, <1>12, <2>1, AgreeBelow
  <2>3. Agree(stk, m, Base(stk))
    BY <1>2, <1>4, <1>8, AgreeBelow
  <2>4. Agree(stk, g, Base(stk))
    BY <1>2, <2>1, <2>2, <2>3, AgreeSteps
  <2> QED
    BY <2>2, <2>4
<1>14. Extras(g) = e
  BY <1>1, <1>2, <1>3, <1>8, <1>12, <1>13, ExtrasRead
<1> DEFINE h == Topped(g, where + x)
<1>15. where + x \in Nat /\ where + Len(e) <= g.last /\ g.last \in Nat
  <2>1. g.last \in Nat
    BY <1>12 DEF StackOK
  <2> HIDE DEF e, x, where
  <2> QED
    BY <1>4, <1>6, <1>8, <1>11, <1>12, <2>1
<1> HIDE DEF e, x, where
<1>16. SameSlots(g, h) /\ h.top = where + x /\ h.cis = g.cis
  BY <1>12, <1>15, ToppedDoes
<1> HIDE DEF h
<1>17. StackOK(h) /\ h.last = g.last /\ Agree(g, h, where) /\ Agree(g, h, Base(stk))
  BY <1>12, <1>16, SlotsKept DEF SameSlots
<1>18. where + Len(e) <= h.last + Extra /\ where + x <= Room(h)
  BY <1>6, <1>11, <1>15, <1>17, ExtraNat DEF Room
<1>19. stk' = Put(h, where, e)
  BY <1>10, <1>14 DEF h
<1>20. StackOK(stk') /\ stk'.top = where + x /\ stk'.last = h.last /\ stk'.cis = stk.cis
       /\ InPlace(stk', where, e) /\ Agree(h, stk', where)
  BY <1>6, <1>8, <1>11, <1>12, <1>16, <1>17, <1>18, <1>19, PutDoes
<1>21. InPlace(stk', Base(stk), r0) /\ Agree(stk, stk', Base(stk))
  <2>1. Base(stk) + Len(r0) <= where /\ where \in Int /\ Base(stk) <= where /\ Base(stk) \in Int
    BY <1>4, <1>6, <1>9
  <2>2. InPlace(g, Base(stk), r0)
    BY <1>8, <1>9, <1>13, <2>1, StaysInPlace
  <2>3. InPlace(h, Base(stk), r0)
    BY <1>9, <1>12, <1>17, <2>1, <2>2, StaysInPlace
  <2>4. InPlace(stk', Base(stk), r0)
    BY <1>9, <1>17, <1>20, <2>1, <2>3, StaysInPlace
  <2>5. Agree(h, stk', Base(stk))
    BY <1>17, <1>20, <2>1, AgreeBelow
  <2>6. Agree(stk, h, Base(stk))
    BY <1>2, <1>13, <1>17, <2>1, AgreeSteps
  <2>7. Agree(stk, stk', Base(stk))
    BY <1>2, <2>1, <2>5, <2>6, AgreeSteps
  <2> QED
    BY <2>4, <2>7
<1>22. IsSeq(r) /\ Len(r) = Live + 1 + x /\ r[Live + 1] = fn /\ InPlace(stk', Base(stk), r)
  <2>1. /\ IsSeq(r) /\ Len(r) = Len(r0) + Len(e)
        /\ \A i \in 1..Len(r0) : r[i] = r0[i]
    BY <1>9, <1>11, Joined
  <2>2. Live + 1 \in 1..Len(r0)
    BY <1>4, <1>9
  <2>3. Base(stk) + Len(r0) = where
    BY <1>4, <1>6, <1>9
  <2>4. InPlace(stk', Base(stk), r)
    <3>1. InPlace(stk', Base(stk) + Len(r0), e)
      BY <1>20, <2>3
    <3> QED
      BY <1>9, <1>11, <1>20, <1>21, <3>1, InPlaceJoined
  <2> QED
    BY <1>9, <1>11, <2>1, <2>2, <2>4
<1> HIDE DEF r
<1>23. Function(fn)
  BY <1>1, <1>3, CallsAssumption DEF Function, Running
<1>24. Later(Frame, f1) /\ f1.regs = r /\ f1.open = Live
  <2>1. Live \in Int /\ Live >= -1 /\ Live + 1 <= Len(r) /\ Function(r[Live + 1])
    BY <1>4, <1>11, <1>22, <1>23
  <2>2. Live < FnInfo[Frame.fn].size
    BY <1>1, <1>4 DEF FrameSize
  <2> QED
    BY <1>4, <1>22, <2>1, <2>2, NewRegs
<1> HIDE DEF f1
<1>25. stk'.top = Base(stk) + Len(f1.regs) /\ stk'.top <= Room(stk') /\ ~(f1.open = -1)
  <2>1. where + x = Base(stk) + Len(r)
    <3> DEFINE b == Base(stk)
               l == Len(r)
    <3>1. where = b + Live + 1 /\ l = Live + 1 + x /\ b \in Nat /\ Live \in Nat /\ x \in Nat
      BY <1>4, <1>6, <1>11, <1>22
    <3> HIDE DEF b, l
    <3>2. where + x = b + l
      BY <3>1
    <3> QED
      BY <3>2 DEF b, l
  <2>2. Room(stk') = Room(h)
    BY <1>20 DEF Room
  <2> QED
    BY <1>4, <1>18, <1>20, <1>24, <2>1, <2>2
<1> QED
  BY <1>1, <1>2, <1>3, <1>20, <1>21, <1>22, <1>24, <1>25, BodyDone

(* The frame and the ceiling have been moved up by as much, and the top is *)
(* at the ceiling.                                                         *)
Prepared ==
  \E f1, c1 :
    /\ lua' = Now(f1) /\ f1.fn = Frame.fn /\ f1.ready = TRUE /\ f1.open = -1
    /\ StackOK(stk') /\ stk.last <= stk'.last /\ stk'.cis = Append(Front(stk.cis), c1) /\ stk'.top = c1.top
    /\ c1.func \in Nat /\ c1.top \in Nat /\ c1.func + 1 + FnInfo[f1.fn].size <= c1.top
    /\ c1.top = Last(stk.cis).top + Live + 1 /\ stk.top = Last(stk.cis).func + 1 + Live
    /\ stk.top + FnInfo[f1.fn].size + 1 <= stk'.last

(* A vararg function moves its frame above its arguments.                  *)
LEMMA VarargPrepKeeps ==
  ASSUME LoopInv, DataInv, StackHolds, VarargPrep
  PROVE  (StackHolds' => DataInv') /\ Prepared
<1> DEFINE c == Last(stk.cis)
           f == Frame
           p == FnInfo[Frame.fn]
           P == p.params
           actual == stk.top - c.func - 1
           g == CheckStack(stk, p.size + 1)
           vs == Read(g, c.func, P + 1)
           q == Put(g, g.top, vs)
           h == Put(q, c.func + 1, Nils(P))
           c1 == [c EXCEPT !.nextra = actual - P, !.func = @ + actual + 1, !.top = @ + actual + 1]
           k == SetCI(h, c1)
           r == SubSeq(Frame.regs, 1, P)
           e == SubSeq(Frame.regs, P + 1, Live)
           f1 == [Frame EXCEPT !.ready = TRUE, !.regs = r, !.extra = e]
<1>1. /\ Runs("body") /\ ~f.ready /\ stk' = Claimed(k) /\ lua' = Now(f1)
      /\ nat' = nat /\ rax' = rax /\ rep' = rep /\ prog' = prog /\ fuel' = fuel
  BY DEF VarargPrep, AdjustVarargs, Copy
<1>2. PICK link : Running(link)
  BY <1>1, BodyFacts
<1>3. Numbers /\ StackOK(stk) /\ fuel' \in Nat /\ Shape(c, f) /\ Has(stk, c.func, f.fn)
  BY <1>1, <1>2, RunningNumbers DEF Running, FrameOK, Placed, RunOK
<1>4. /\ c.func \in Nat /\ c.top \in Nat /\ Base(stk) = c.func + 1 /\ IsSeq(f.regs) /\ Live = Len(f.regs)
      /\ Live \in Nat /\ stk.top = c.func + 1 + Live /\ stk.top \in Nat /\ f.fn \in DOMAIN FnInfo /\ IsLua(f.fn)
      /\ DOMAIN f = {"fn", "regs", "extra", "open", "ready", "closed", "ret", "want"} /\ f.ret = FALSE
      /\ f.closed \in BOOLEAN /\ InPlace(stk, c.func + 1, f.regs)
  BY <1>1, <1>3 DEF Numbers
<1>5. /\ InfoOK(c) /\ p.vararg /\ P <= Live /\ f.open = -1 /\ c.func + 1 + p.size <= c.top
  BY <1>1, <1>3, <1>4 DEF Shape
<1>6. P \in Nat /\ p.size \in Nat /\ P <= p.size /\ p.kind = "lua"
  BY <1>4, FnFacts
<1>7. actual = Live /\ c.n \in Int /\ c.n >= -1
  BY <1>4, <1>5 DEF InfoOK
<1> HIDE DEF actual
<1>8. /\ InfoOK(c1) /\ c1.func = stk.top /\ c1.nextra = Live - P /\ c1.top = c.top + Live + 1 /\ c1.n = c.n
      /\ stk.top + 1 + p.size <= c1.top
  <2>1. c1.func = c.func + Live + 1 /\ c1.nextra = Live - P /\ c1.top = c.top + Live + 1 /\ c1.n = c.n
        /\ DOMAIN c1 = DOMAIN c
    BY <1>5, <1>7 DEF InfoOK
  <2> DEFINE w == c.func
             t == c.top
             z == p.size
             u == stk.top
  <2>2. w \in Nat /\ t \in Nat /\ z \in Nat /\ u \in Nat /\ Live \in Nat /\ P \in Nat /\ P <= Live
        /\ u = w + 1 + Live /\ w + 1 + z <= t
    BY <1>4, <1>5, <1>6
  <2>3. c1.func = w + Live + 1 /\ c1.top = t + Live + 1 /\ c1.nextra = Live - P
    BY <2>1
  <2> HIDE DEF w, t, z, u
  <2>4. c1.func = u /\ u + 1 + z <= t + Live + 1 /\ t + Live + 1 \in Nat /\ Live - P \in Nat
    BY <2>2, <2>3
  <2>5. InfoOK(c1)
    BY <1>5, <1>7, <2>1, <2>2, <2>3, <2>4 DEF InfoOK
  <2> QED
    BY <2>1, <2>3, <2>4, <2>5 DEF t, z, u
<1> HIDE DEF c1
<1>9. /\ StackOK(g) /\ g.top = stk.top /\ g.cis = stk.cis /\ g.last >= stk.top + p.size + 1
      /\ (\A b : Agree(stk, g, b)) /\ g.last \in Nat
  <2> DEFINE n == p.size + 1
  <2>1. n \in Int /\ n = p.size + 1
    BY <1>6
  <2> HIDE DEF n
  <2> DEFINE y == CheckStack(stk, n)
  <2>2. StackOK(y) /\ y.top = stk.top /\ y.cis = stk.cis /\ y.last >= stk.top + n /\ \A b : Agree(stk, y, b)
    BY <1>3, <2>1, CheckDoes
  <2>3. g = y
    BY DEF n
  <2> HIDE DEF y, g
  <2>4. g.last >= stk.top + p.size + 1 /\ g.last \in Nat
    BY <1>4, <1>6, <2>1, <2>2, <2>3 DEF StackOK
  <2> QED
    BY <2>2, <2>3, <2>4
<1> HIDE DEF g
<1>10. /\ IsSeq(r) /\ Len(r) = P /\ IsSeq(e) /\ Len(e) = Live - P
       /\ InPlace(g, c.func + 1, r) /\ InPlace(g, c.func + 1 + P, e)
  <2>1. InPlace(g, c.func + 1, f.regs)
    <3> DEFINE b == c.func + 1 + Live
    <3>1. b \in Int /\ c.func + 1 + Len(f.regs) <= b /\ Agree(stk, g, b)
      BY <1>4, <1>9
    <3> HIDE DEF b
    <3> QED
      BY <1>3, <1>4, <3>1, StaysInPlace
  <2> DEFINE a == 1
             d == P + 1
             s == f.regs
             w == c.func + 1
             u == P
             v == Live
  <2>2. /\ IsSeq(s) /\ a \in 1..(Len(s) + 1) /\ u \in (a - 1)..Len(s) /\ d \in 1..(Len(s) + 1) /\ v \in (d - 1)..Len(s)
        /\ w + a - 1 = w /\ w + d - 1 = w + P /\ u - a + 1 = P /\ v - d + 1 = Live - P /\ InPlace(g, w, s)
    <3>1. IsSeq(s) /\ Len(s) = v /\ InPlace(g, w, s)
      BY <1>4, <2>1
    <3>2. P \in Nat /\ v \in Nat /\ P <= v /\ w \in Nat
      BY <1>4, <1>5, <1>6
    <3> HIDE DEF s, w, v
    <3>3. a = 1 /\ d = P + 1 /\ u = P
      OBVIOUS
    <3> HIDE DEF a, d, u
    <3>4. a \in 1..(v + 1) /\ u \in (a - 1)..v /\ d \in 1..(v + 1) /\ v \in (d - 1)..v
          /\ w + a - 1 = w /\ w + d - 1 = w + P /\ u - a + 1 = P /\ v - d + 1 = v - P
      <4> HIDE DEF P
      <4> QED
        BY <3>2, <3>3
    <3> QED
      BY <3>1, <3>4 DEF v
  <2> HIDE DEF a, d, s, w, u, v
  <2>3. /\ IsSeq(SubSeq(s, a, u)) /\ Len(SubSeq(s, a, u)) = u - a + 1
        /\ IsSeq(SubSeq(s, d, v)) /\ Len(SubSeq(s, d, v)) = v - d + 1
    BY <2>2, Part
  <2>4. InPlace(g, w + a - 1, SubSeq(s, a, u))
    BY <1>9, <2>2, InPlacePart
  <2>5. InPlace(g, w + d - 1, SubSeq(s, d, v))
    BY <1>9, <2>2, InPlacePart
  <2>6. r = SubSeq(s, a, u) /\ e = SubSeq(s, d, v)
    BY DEF s, a, u, d, v
  <2>7. InPlace(g, w, r) /\ InPlace(g, w + P, e)
    BY <2>2, <2>4, <2>5, <2>6
  <2> QED
    BY <2>2, <2>3, <2>6, <2>7 DEF w
<1> HIDE DEF r, e
<1>11. Has(g, c.func, f.fn)
  <2>1. Agree(stk, g, c.func + 1) /\ c.func + 1 \in Int /\ c.func < c.func + 1
    BY <1>4, <1>9
  <2> QED
    BY <1>3, <2>1, HasStays
<1>12. vs = <<f.fn>> \o r /\ IsSeq(vs) /\ Len(vs) = P + 1
  <2> DEFINE o == <<f.fn>>
             s == o \o r
  <2>1. IsSeq(o) /\ Len(o) = 1 /\ InPlace(g, c.func, o)
    BY <1>9, <1>11, Singles, HasOne
  <2> HIDE DEF o
  <2>2. IsSeq(s) /\ Len(s) = P + 1
    <3>1. IsSeq(o \o r) /\ Len(o \o r) = Len(o) + Len(r)
      BY <1>10, <2>1, Joined
    <3> QED
      BY <1>6, <1>10, <2>1, <3>1
  <2>3. InPlace(g, c.func + Len(o), r)
    BY <1>10, <2>1
  <2>4. InPlace(g, c.func, s)
    BY <1>9, <1>10, <2>1, <2>3, InPlaceJoined
  <2> HIDE DEF s
  <2>5. Read(g, c.func, Len(s)) = s
    BY <1>9, <2>2, <2>4, ReadInPlace
  <2>6. vs = s
    BY <2>2, <2>5
  <2> QED
    BY <2>2, <2>6 DEF s, o
<1> HIDE DEF vs
<1>13. /\ StackOK(q) /\ q.last = g.last /\ q.cis = g.cis /\ InPlace(q, stk.top, vs) /\ Agree(g, q, stk.top)
  <2>1. g.top \in Nat /\ g.top + Len(vs) <= g.last + Extra
    <3> DEFINE w == stk.top
               z == p.size
               y == g.last
    <3>1. w \in Nat /\ z \in Nat /\ y \in Nat /\ P \in Nat /\ P <= z /\ y >= w + z + 1 /\ g.top = w /\ Len(vs) = P + 1
      BY <1>4, <1>6, <1>9, <1>12
    <3> HIDE DEF w, z, y, P
    <3>2. w + (P + 1) <= y + Extra
      BY <3>1, ExtraNat
    <3> QED
      BY <3>1, <3>2 DEF y
  <2>2. /\ StackOK(q) /\ q.last = g.last /\ q.cis = g.cis /\ InPlace(q, g.top, vs) /\ Agree(g, q, g.top)
    BY <1>9, <1>12, <2>1, PutDoes, ZenonT(60)
  <2> HIDE DEF q
  <2> QED
    BY <1>9, <2>2
<1> HIDE DEF q
<1>14. InPlace(q, c.func + 1 + P, e)
  <2>1. c.func + 1 + P + Len(e) <= stk.top /\ stk.top \in Int
    BY <1>4, <1>5, <1>6, <1>10
  <2> QED
    BY <1>9, <1>10, <1>13, <2>1, StaysInPlace
<1>15. IsSeq(Nils(P)) /\ Len(Nils(P)) = P
  BY <1>6, NilsSeq
<1>16. /\ StackOK(h) /\ h.last = q.last /\ h.cis = q.cis /\ Agree(q, h, c.func + 1)
       /\ InPlace(h, stk.top, vs) /\ InPlace(h, c.func + 1 + P, e)
  <2> DEFINE a == c.func + 1
             s == Nils(P)
  <2>1. a \in Nat /\ a + Len(s) <= q.last + Extra /\ a + Len(s) <= stk.top /\ a + Len(s) <= c.func + 1 + P /\ IsSeq(s)
    <3> DEFINE w == c.func
               z == p.size
               y == g.last
               u == stk.top
    <3>1. /\ w \in Nat /\ z \in Nat /\ y \in Nat /\ P \in Nat /\ P <= z /\ y >= u + z + 1 /\ u = w + 1 + Live
          /\ Live \in Nat /\ P <= Live /\ Len(s) = P /\ q.last = y /\ IsSeq(s)
      BY <1>4, <1>5, <1>6, <1>9, <1>13, <1>15
    <3> HIDE DEF w, z, y, u, s, P
    <3>2. w + 1 \in Nat /\ w + 1 + P <= y + Extra /\ w + 1 + P <= u /\ w + 1 + P <= w + 1 + P
      BY <3>1, ExtraNat
    <3> QED
      BY <3>1, <3>2 DEF w, u
  <2> HIDE DEF a, s
  <2> DEFINE y == Put(q, a, s)
  <2>2. StackOK(y) /\ y.last = q.last /\ y.cis = q.cis /\ Agree(q, y, a)
    BY <1>13, <2>1, PutDoes
  <2>3. InPlace(y, stk.top, vs)
    BY <1>12, <1>13, <2>1, PutElsewhere
  <2>4. InPlace(y, c.func + 1 + P, e)
    BY <1>10, <1>13, <1>14, <2>1, PutElsewhere
  <2>5. h = y
    BY DEF a, s
  <2> HIDE DEF y, h
  <2> QED
    BY <2>2, <2>3, <2>4, <2>5 DEF a
<1> HIDE DEF h
<1>17. SameSlots(h, k) /\ k.cis = Append(Front(stk.cis), c1) /\ StackOK(k)
  <2>1. SameSlots(h, k) /\ k.cis = Append(Front(h.cis), c1)
    BY <1>16, SetCIDoes
  <2> HIDE DEF k
  <2> QED
    BY <1>9, <1>13, <1>16, <2>1 DEF SameSlots
<1> HIDE DEF k
<1>18. Last(k.cis) = c1
  <2> DEFINE s == stk.cis
  <2>1. IsSeq(s) /\ Len(s) >= 1
    BY <1>2 DEF Running
  <2> HIDE DEF s
  <2>2. Len(Append(Front(s), c1)) = Len(s) /\ Append(Front(s), c1)[Len(s)] = c1
    BY <2>1, NowSeq
  <2> QED
    BY <1>17, <2>2 DEF Last, s
<1>19. /\ SameSlots(k, stk') /\ stk'.top = c1.top /\ stk'.cis = Append(Front(stk.cis), c1) /\ StackOK(stk')
  <2>1. c1.top \in Nat
    BY <1>8 DEF InfoOK
  <2> DEFINE t == c1.top
  <2> HIDE DEF t
  <2>2. SameSlots(k, Topped(k, t)) /\ Topped(k, t).top = t /\ Topped(k, t).cis = k.cis
    BY <1>17, <2>1, ToppedDoes DEF t
  <2>3. stk' = Topped(k, t)
    BY <1>1, <1>18 DEF Claimed, t
  <2> QED
    BY <1>17, <2>2, <2>3 DEF t, SameSlots
<1>20. InPlace(stk', stk.top, vs) /\ InPlace(stk', c.func + 1 + P, e)
  BY <1>16, <1>17, <1>19, SlotsKept
<1>21. Agree(stk, stk', c.func)
  <2>1. c.func \in Int /\ stk.top \in Int /\ c.func <= stk.top /\ c.func + 1 \in Int /\ c.func <= c.func + 1
    BY <1>4
  <2>2. Agree(stk, g, c.func)
    BY <1>9
  <2>3. Agree(g, q, c.func)
    BY <1>9, <1>13, <2>1, AgreeBelow
  <2>4. Agree(q, h, c.func)
    BY <1>13, <1>16, <2>1, AgreeBelow
  <2>5. Agree(h, k, c.func)
    BY <1>16, <1>17, SlotsKept
  <2>6. Agree(k, stk', c.func)
    BY <1>17, <1>19, SlotsKept
  <2>7. Agree(stk, q, c.func)
    BY <1>3, <2>1, <2>2, <2>3, AgreeSteps
  <2>8. Agree(stk, h, c.func)
    BY <1>3, <2>1, <2>4, <2>7, AgreeSteps
  <2>9. Agree(stk, k, c.func)
    BY <1>3, <2>1, <2>5, <2>8, AgreeSteps
  <2> QED
    BY <1>3, <2>1, <2>6, <2>9, AgreeSteps
<1>22. Has(stk', c1.func, f.fn) /\ InPlace(stk', c1.func + 1, r)
  <2> DEFINE o == <<f.fn>>
  <2>1. IsSeq(o) /\ Len(o) = 1
    BY Singles
  <2>2. InPlace(stk', stk.top, o \o r)
    BY <1>12, <1>20
  <2> HIDE DEF o
  <2>3. InPlace(stk', stk.top, o) /\ InPlace(stk', stk.top + Len(o), r)
    BY <1>10, <1>19, <2>1, <2>2, InPlaceJoined
  <2>4. Has(stk', stk.top, f.fn)
    BY <1>19, <2>3, HasOne DEF o
  <2> QED
    BY <1>8, <2>1, <2>3, <2>4
<1>23. InPlace(stk', c1.func - c1.nextra, e)
  <2>1. c1.func - c1.nextra = c.func + 1 + P
    BY <1>4, <1>6, <1>8
  <2> QED
    BY <1>20, <2>1
<1>24. /\ f1.ready = TRUE /\ f1.regs = r /\ f1.extra = e /\ f1.fn = f.fn /\ f1.open = -1 /\ f1.ret = FALSE
       /\ f1.closed \in BOOLEAN
       /\ DOMAIN f1 = {"fn", "regs", "extra", "open", "ready", "closed", "ret", "want"}
  BY <1>4, <1>5
<1> HIDE DEF f1
<1>25. Spread(f1) /\ ~Spread(f) /\ Low(c1, f1) = c.func /\ Low(c, f) = c.func
  <2>1. Spread(f1) /\ ~Spread(f)
    BY <1>1, <1>5, <1>24 DEF Spread
  <2>2. c1.func - (c1.nextra + P + 1) = c.func
    <3> DEFINE w == c.func
               u == stk.top
    <3>1. w \in Nat /\ u = w + 1 + Live /\ Live \in Nat /\ P \in Nat /\ c1.func = u /\ c1.nextra = Live - P
      BY <1>4, <1>6, <1>8
    <3> HIDE DEF w, u, P
    <3>2. c1.func - (c1.nextra + P + 1) = w
      BY <3>1
    <3> QED
      BY <3>2 DEF w
  <2> QED
    BY <1>24, <2>1, <2>2 DEF Low
<1>26. Shape(c1, f1)
  <2>1. InfoOK(c1) /\ c1.func + 1 + FnInfo[f1.fn].size <= c1.top /\ c1.nextra = Len(f1.extra)
    BY <1>8, <1>10, <1>24
  <2>2. Low(c1, f1) \in Nat
    BY <1>4, <1>25
  <2>3. FnInfo[f1.fn].kind = "lua" /\ f1.fn \in DOMAIN FnInfo /\ IsSeq(f1.regs) /\ IsSeq(f1.extra)
    BY <1>4, <1>6, <1>10, <1>24
  <2>4. f1.open \in Int /\ f1.open >= -1 /\ ~(f1.open >= 0)
    BY <1>24
  <2> QED
    BY <1>24, <1>25, <2>1, <2>2, <2>3, <2>4 DEF Shape
<1>27. FrameOK(stk', c1, f1)
  BY <1>22, <1>23, <1>24, <1>26 DEF FrameOK, Placed
<1>28. ASSUME StackHolds' PROVE stk'.top <= Room(stk')
  <2> DEFINE s == stk.cis
             t == stk'.cis
  <2>1. IsSeq(s) /\ Len(s) \in Nat \ {0} /\ t = Append(Front(s), c1)
    BY <1>2, <1>19 DEF Running
  <2> HIDE DEF s, t
  <2>2. Len(t) = Len(s) /\ t[Len(s)] = c1
    BY <2>1, NowSeq
  <2>3. Len(s) \in 1..Len(t)
    BY <2>1, <2>2
  <2>4. t[Len(s)].top <= stk'.last + Extra - 3
    BY <1>28, <2>3 DEF StackHolds, Ceilings, t
  <2> QED
    BY <1>19, <2>2, <2>4 DEF Room
<1>29. ASSUME StackHolds' PROVE RunOK(stk', c1, f1)
  BY <1>4, <1>6, <1>10, <1>22, <1>24, <1>28, <1>29 DEF RunOK, RegsOK, Fits
<1>30. Agree(stk, stk', Low(c, f)) /\ Low(c1, f1) = Low(c, f) /\ c1.n = c.n
  BY <1>8, <1>21, <1>25
<1>33. Prepared
  <2>1. stk.last <= stk'.last
    BY <1>21 DEF Agree
  <2>2. stk'.last = g.last
    BY <1>13, <1>16, <1>17, <1>19 DEF SameSlots
  <2>3. c1.func \in Nat /\ c1.top \in Nat
    BY <1>8 DEF InfoOK
  <2>4. stk.top + 1 + FnInfo[f1.fn].size <= c1.top /\ c1.func = stk.top
    BY <1>8, <1>24
  <2>5. stk.top + FnInfo[f1.fn].size + 1 <= stk'.last
    BY <1>9, <1>24, <2>2
  <2> QED BY <1>1, <1>4, <1>8, <1>19, <1>24, <2>1, <2>3, <2>4, <2>5 DEF Prepared
<1> HIDE DEF c, f
<1>31. lua' = Now(f1) /\ stk'.cis = Append(Front(stk.cis), c1) /\ c = Last(stk.cis) /\ f = Frame
  BY <1>1, <1>19 DEF c, f
<1>32. ASSUME StackHolds' PROVE DataInv'
  <2>1. RunOK(stk', c1, f1)
    BY <1>29, <1>32
  <2> QED BY <2>1, <1>1, <1>2, <1>3, <1>27, <1>30, <1>31, BodyGoesOn
<1> QED BY <1>32, <1>33

-----------------------------------------------------------------------------
(* Calls.                                                                  *)

(* On top of the activations n there are x and some that serve no frame.   *)
Above(n, x, t) ==
  /\ IsSeq(t) /\ Len(t) > Len(n)
  /\ \A i \in 1..Len(n) : t[i] = n[i]
  /\ t[Len(n) + 1] = x
  /\ \A i \in (Len(n) + 2)..Len(t) : t[i].kind \notin Server

(* Then x serves the frame that calls.                                     *)
LEMMA ServingAbove ==
  ASSUME NEW n, IsSeq(n), NEW link, Serving(n, link), NEW x, x.kind \in Server, NEW t, Above(n, x, t)
  PROVE  /\ Serving(t, Append(link, Len(n) + 1)) /\ Longer(link, Append(link, Len(n) + 1), Len(n) + 1)
         /\ \A j \in 1..Len(link) : t[link[j]] = n[link[j]]
<1> DEFINE k == Len(n) + 1
           to == Append(link, k)
<1>1. /\ IsSeq(link) /\ Len(link) \in Nat /\ Len(n) \in Nat
      /\ \A j \in 1..Len(link) : link[j] \in 1..Len(n) /\ n[link[j]].kind \in Server
      /\ \A i, j \in 1..Len(link) : i < j => link[i] < link[j]
      /\ \A i \in 1..Len(n) : n[i].kind \in Server => \E j \in 1..Len(link) : link[j] = i
  BY SeqFacts DEF Serving
<1>2. /\ IsSeq(t) /\ Len(t) \in Nat /\ Len(t) >= k /\ \A i \in 1..Len(n) : t[i] = n[i]
      /\ t[k] = x
      /\ \A i \in (Len(n) + 2)..Len(t) : t[i].kind \notin Server
  <2>1. Len(t) \in Nat
    BY SeqFacts DEF Above
  <2> QED
    BY <1>1, <2>1 DEF Above
<1>3. Longer(link, to, k)
  BY <1>1, AppendLonger
<1>4. k = Len(n) + 1 /\ k \in Nat
  BY <1>1
<1> HIDE DEF to, k
<1>5. IsSeq(to) /\ Len(to) = Len(link) + 1 /\ (\A j \in 1..Len(link) : to[j] = link[j]) /\ to[Len(link) + 1] = k
  BY <1>3 DEF Longer
<1>6. \A j \in 1..Len(link) : t[link[j]] = n[link[j]] /\ link[j] \in 1..Len(t) /\ link[j] < k
  BY <1>1, <1>2, <1>4
<1>7. ASSUME NEW j \in 1..Len(to) PROVE to[j] \in 1..Len(t) /\ t[to[j]].kind \in Server
  <2>1. CASE j = Len(link) + 1
    BY <1>2, <1>4, <1>5, <2>1
  <2>2. CASE j # Len(link) + 1
    <3>1. j \in 1..Len(link)
      BY <1>1, <1>5, <2>2
    <3> QED
      BY <1>1, <1>5, <1>6, <3>1
  <2> QED
    BY <2>1, <2>2
<1>8. ASSUME NEW i \in 1..Len(to), NEW j \in 1..Len(to), i < j PROVE to[i] < to[j]
  <2>1. i \in 1..Len(link)
    BY <1>1, <1>5, <1>8
  <2>2. CASE j = Len(link) + 1
    BY <1>5, <1>6, <2>1, <2>2
  <2>3. CASE j # Len(link) + 1
    <3>1. j \in 1..Len(link)
      BY <1>1, <1>5, <2>3
    <3> QED
      BY <1>1, <1>5, <1>8, <2>1, <3>1
  <2> QED
    BY <2>2, <2>3
<1>9. ASSUME NEW i \in 1..Len(t), t[i].kind \in Server PROVE \E j \in 1..Len(to) : to[j] = i
  <2>1. CASE i \in 1..Len(n)
    <3>1. PICK j \in 1..Len(link) : link[j] = i
      BY <1>1, <1>2, <1>9, <2>1
    <3>2. j \in 1..Len(to) /\ to[j] = i
      BY <1>1, <1>5, <3>1
    <3> QED
      BY <3>2
  <2>2. CASE i \notin 1..Len(n)
    <3>1. i \notin (Len(n) + 2)..Len(t)
      BY <1>2, <1>9
    <3>2. i = k
      BY <1>1, <1>2, <1>4, <2>2, <3>1
    <3>3. Len(link) + 1 \in 1..Len(to)
      BY <1>1, <1>5
    <3> QED
      BY <1>5, <3>2, <3>3
  <2> QED
    BY <2>1, <2>2
<1>10. Serving(t, to)
  BY <1>5, <1>7, <1>8, <1>9 DEF Serving
<1> QED
  BY <1>3, <1>6, <1>10 DEF to, k

(* What is put on top when one activation calls through two more, or one.  *)
LEMMA AboveTwo ==
  ASSUME NEW n, IsSeq(n), NEW x, NEW y, NEW z, y.kind \notin Server, z.kind \notin Server
  PROVE  /\ Above(n, x, Append(n, x) \o <<y, z>>)
         /\ (Append(n, x) \o <<y, z>>)[Len(Append(n, x) \o <<y, z>>)] = z
         /\ Above(n, x, Append(Append(n, x), z))
         /\ Append(Append(n, x), z)[Len(Append(Append(n, x), z))] = z
<1> DEFINE a == Append(n, x)
           b == Append(a, y)
           c == Append(b, z)
           d == Append(a, z)
<1>1. Longer(n, a, x)
  BY AppendLonger
<1>2. IsSeq(a)
  BY <1>1 DEF Longer
<1>3. Longer(a, b, y) /\ Longer(a, d, z)
  BY <1>2, AppendLonger
<1>4. IsSeq(b)
  BY <1>3 DEF Longer
<1>5. Longer(b, c, z)
  BY <1>4, AppendLonger
<1>6. a \o <<y, z>> = c
  BY <1>2, TwoLonger
<1> HIDE DEF a, b, c, d
<1>7. Len(n) \in Nat
  BY SeqFacts
<1>8. Len(a) = Len(n) + 1 /\ a[Len(n) + 1] = x /\ \A i \in 1..Len(n) : a[i] = n[i]
  BY <1>1 DEF Longer
<1>9. /\ Len(b) = Len(n) + 2 /\ b[Len(n) + 2] = y /\ b[Len(n) + 1] = x
      /\ \A i \in 1..Len(n) : b[i] = n[i]
  BY <1>3, <1>7, <1>8 DEF Longer
<1>10. /\ Len(d) = Len(n) + 2 /\ d[Len(n) + 2] = z /\ d[Len(n) + 1] = x
       /\ \A i \in 1..Len(n) : d[i] = n[i]
  BY <1>3, <1>7, <1>8 DEF Longer
<1>11. /\ Len(c) = Len(n) + 3 /\ c[Len(n) + 3] = z /\ c[Len(n) + 2] = y /\ c[Len(n) + 1] = x
       /\ \A i \in 1..Len(n) : c[i] = n[i]
  BY <1>5, <1>7, <1>9 DEF Longer
<1>12. Above(n, x, c)
  <2>1. \A i \in (Len(n) + 2)..Len(c) : i = Len(n) + 2 \/ i = Len(n) + 3
    BY <1>7, <1>11
  <2>2. \A i \in (Len(n) + 2)..Len(c) : c[i].kind \notin Server
    BY <1>11, <2>1
  <2> QED
    BY <1>5, <1>7, <1>11, <2>2 DEF Above, Longer
<1>13. Above(n, x, d)
  <2>1. \A i \in (Len(n) + 2)..Len(d) : i = Len(n) + 2
    BY <1>7, <1>10
  <2>2. \A i \in (Len(n) + 2)..Len(d) : d[i].kind \notin Server
    BY <1>10, <2>1
  <2> QED
    BY <1>3, <1>7, <1>10, <2>2 DEF Above, Longer
<1> QED
  BY <1>6, <1>10, <1>11, <1>12, <1>13 DEF a, c, d

(* The callee fn is on top of the frame f1, and x serves that one.         *)
Handed(m, func, n, ns, x, f1, fn, args) ==
  /\ Entered(m, stk', func, n, fn, args) /\ Above(ns, x, nat')
  /\ nat'[Len(nat')].kind = (IF IsLua(fn) THEN "body" ELSE "cfn")
  /\ lua' = Append(Now(f1), Called(fn, args))

(* The function of an open list is not a vararg function.                  *)
OpenFine(f) == IsLua(f.fn) /\ f.open >= 0 /\ ~f.ret => ~FnInfo[f.regs[f.open + 1]].vararg
(* Nor is any that the program calls.                                      *)
NoVarargs == (\A fn \in prog.fns : ~FnInfo[fn].vararg) /\ OpenFine(Frame)

(* A step has called a function: the frame f1 waits for it.                *)
HandsOver ==
  \E m, func, n, ns, x, f1, fn, args :
    /\ Ready(m, func, fn, args) /\ m.cis = stk.cis /\ stk.last <= m.last
    /\ Handed(m, func, n, ns, x, f1, fn, args) /\ ns \in {nat, Front(nat)}
    /\ x.kind = "tfor" => "tfor" \in prog.ops
    /\ NoVarargs => OpenFine(f1) /\ Exact(stk', func, fn)

(* luaD_call enters the function on behalf of x.                           *)
LEMMA LuaDCalls ==
  ASSUME NEW m, NEW func, NEW n \in Int, n >= -1, NEW ns, IsSeq(ns), NEW x, NEW caller, NEW args, NEW fn,
         LuaDCall(m, func, n, Append(ns, x), caller, args), Ready(m, func, fn, args)
  PROVE  Handed(m, func, n, ns, x, caller, fn, args) /\ Exact(stk', func, fn)
<1>1. At(m, func) = fn
  BY HasOne DEF Ready
<1>2. lua' = Append(Now(caller), Called(fn, args))
  BY <1>1 DEF LuaDCall
<1>3. /\ Body.kind = "body" /\ CFunction.kind = "cfn" /\ Act("ccall", 0, 0).kind = "ccall"
  BY DEF Body, CFunction, Act
<1>4. CASE IsLua(fn)
  <2> DEFINE y == Act("ccall", 0, 0)
             z == Body
  <2>1. stk' \in Precall(m, func, n) /\ nat' = Append(ns, x) \o <<y, z>>
    BY <1>1, <1>4 DEF LuaDCall
  <2>2. Entered(m, stk', func, n, fn, args) /\ Exact(stk', func, fn)
    BY <1>4, <2>1, PrecallEnters
  <2>3. y.kind \notin Server /\ z.kind \notin Server /\ z.kind = "body"
    BY <1>3 DEF Server, Helper
  <2> HIDE DEF y, z
  <2>4. /\ Above(ns, x, Append(ns, x) \o <<y, z>>)
        /\ (Append(ns, x) \o <<y, z>>)[Len(Append(ns, x) \o <<y, z>>)] = z
    BY <2>3, AboveTwo
  <2> QED
    BY <1>2, <1>4, <2>1, <2>2, <2>3, <2>4 DEF Handed
<1>5. CASE ~IsLua(fn)
  <2> DEFINE z == CFunction
  <2>1. stk' \in PrecallC(m, func, n) /\ nat' = Append(Append(ns, x), z)
    BY <1>1, <1>5 DEF LuaDCall
  <2>2. Entered(m, stk', func, n, fn, args) /\ Exact(stk', func, fn)
    <3>1. fn \in DOMAIN FnInfo
      BY DEF Ready
    <3>2. ~FnInfo[fn].vararg
      BY <1>5, <3>1, FnFacts
    <3> QED
      BY <1>5, <2>1, <3>2, PrecallCEnters DEF Exact
  <2> DEFINE y == Act("ccall", 0, 0)
  <2>3. z.kind \notin Server /\ z.kind = "cfn" /\ y.kind \notin Server
    BY <1>3 DEF Server, Helper
  <2> HIDE DEF y, z
  <2>4. /\ Above(ns, x, Append(ns, x) \o <<y, z>>)
        /\ Above(ns, x, Append(Append(ns, x), z))
        /\ Append(Append(ns, x), z)[Len(Append(Append(ns, x), z))] = z
    BY <2>3, AboveTwo
  <2> QED
    BY <1>2, <1>5, <2>1, <2>2, <2>3, <2>4 DEF Handed
<1> QED
  BY <1>4, <1>5

(* A call that leaves the caller's frame waiting.                          *)
LEMMA CallKeeps ==
  ASSUME NEW link, HoldsOK(stk, lua, nat, link), Len(link) = Len(lua) - 1,
         NEW m, m.cis = stk.cis, NEW f1,
         Agree(stk, m, Low(stk.cis[Len(lua)], lua[Len(lua)])),
         Low(stk.cis[Len(lua)], f1) = Low(stk.cis[Len(lua)], lua[Len(lua)]),
         NEW x, NEW n, NEW func, OneOK(m, x, Len(lua), stk.cis[Len(lua)], f1, n, func),
         NEW fn, NEW args, Ready(m, func, fn, args), Callable(fn, args),
         NEW ns, IsSeq(ns), Serving(ns, link), \A j \in 1..Len(link) : ns[link[j]] = nat[link[j]],
         Handed(m, func, n, ns, x, f1, fn, args),
         rax' = -1, rep' = FALSE, prog \in Programs, prog' = prog, fuel' \in Nat
  PROVE  DataInv'
<1> DEFINE to == Append(link, Len(ns) + 1)
           p == Len(ns) + 1
<1>0. /\ Entered(m, stk', func, n, fn, args) /\ Above(ns, x, nat')
      /\ nat'[Len(nat')].kind = (IF IsLua(fn) THEN "body" ELSE "cfn")
      /\ lua' = Append(Now(f1), Called(fn, args))
  BY DEF Handed
<1>1. x.kind \in Server
  BY DEF OneOK, DealOK
<1>2. Serving(nat', to) /\ Longer(link, to, p) /\ \A j \in 1..Len(link) : nat'[link[j]] = ns[link[j]]
  BY <1>0, <1>1, ServingAbove
<1>3. nat'[p] = x
  BY <1>0 DEF Above
<1> HIDE DEF to, p
<1>4. CallStep(stk, lua, nat, link, m, f1, x, n, func, fn, args, stk', nat', to, p, lua')
  BY <1>0, <1>2, <1>3 DEF CallStep, Now
<1>5. /\ HoldsOK(stk', lua', nat', to)
      /\ TopOK(stk', nat'[Len(nat')], Len(lua'), stk'.cis[Len(lua')], lua'[Len(lua')], -1, FALSE)
  BY <1>0, <1>4, HoldsPush
<1> QED
  BY <1>5 DEF DataInv

(* The frame of a native function that waits.                              *)
LEMMA WaitingFrame ==
  ASSUME NEW link, Running(link), Frame.ready, NEW m, Agree(stk, m, Base(stk)), NEW f1, Later(Frame, f1),
         InPlace(m, Base(stk), f1.regs), NEW func, Base(stk) + Len(f1.regs) <= func, NEW n, NEW x,
         DealOK(m, x, Len(lua), Last(stk.cis), f1), WaitOK(m, x, Last(stk.cis), f1, n, func)
  PROVE  /\ OneOK(m, x, Len(lua), Last(stk.cis), f1, n, func)
         /\ Low(Last(stk.cis), f1) = Low(Last(stk.cis), Frame) /\ Agree(stk, m, Low(Last(stk.cis), Frame))
<1> DEFINE c == Last(stk.cis)
<1>1. StackOK(stk) /\ FrameOK(stk, c, Frame) /\ ~Frame.ret /\ IsLua(Frame.fn)
  BY DEF Running, RunOK
<1>2. Base(stk) = c.func + 1
  BY DEF Base
<1>3. DealOK(m, x, Len(lua), c, f1) /\ WaitOK(m, x, c, f1, n, func)
  OBVIOUS
<1> HIDE DEF c
<1>4. FrameOK(m, c, f1) /\ Low(c, f1) = Low(c, Frame) /\ Agree(stk, m, Low(c, Frame))
  BY <1>1, <1>2, LaterFrame
<1>5. RegsOK(m, c, f1) /\ End(c, f1) <= func
  BY <1>2 DEF RegsOK, End
<1>6. OneOK(m, x, Len(lua), c, f1, n, func)
  BY <1>3, <1>4, <1>5 DEF OneOK
<1> QED
  BY <1>4, <1>6 DEF c

(* Where Rt_Call finds the function and its arguments, and what it notes   *)
(* of the caller.                                                          *)
CallReady(m, a, nargs, n, f1, fn, args) ==
  /\ StackOK(m) /\ Agree(stk, m, Base(stk)) /\ m.cis = stk.cis
  /\ a \in Nat /\ n \in Int /\ n >= -1 /\ fn \in DOMAIN FnInfo /\ IsSeq(args) /\ Callable(fn, args)
  /\ Has(m, Base(stk) + a, fn) /\ InPlace(m, Base(stk) + a + 1, args)
  /\ IF nargs = MULTRET THEN m.top = Base(stk) + a + 1 + Len(args) ELSE nargs = Len(args)
  /\ Later(Frame, f1) /\ f1.regs = f1.want.pre /\ f1.want.post = <<>> /\ f1.want.n = n /\ Len(f1.want.pre) = a
  /\ IsSeq(f1.want.pre) /\ InPlace(m, Base(stk), f1.want.pre)
  /\ n >= 0 <=> f1.open = -1
  /\ n >= 0 => a + n <= FrameSize
  /\ NoVarargs => OpenFine(f1) /\ ~FnInfo[fn].vararg

(* The caller of Rt_Call waits.                                            *)
LEMMA RtCallWaits ==
  ASSUME NEW link, Running(link), Frame.ready, NEW m, NEW a, NEW nargs, NEW n, NEW f1, NEW fn, NEW args,
         CallReady(m, a, nargs, n, f1, fn, args), NEW g, Agree(stk, g, Base(stk)), InPlace(g, Base(stk), f1.want.pre),
         NEW x, (x.kind = "rtcall" /\ x.a = a) \/ x.kind = "slow", x.n = n
  PROVE  /\ OneOK(g, x, Len(lua), Last(stk.cis), f1, n, Base(stk) + a)
         /\ Low(Last(stk.cis), f1) = Low(Last(stk.cis), Frame) /\ Agree(stk, g, Low(Last(stk.cis), Frame))
<1> DEFINE c == Last(stk.cis)
           func == Base(stk) + a
           K == Len(lua)
<1>1. Numbers /\ StackOK(stk)
  BY RunningNumbers DEF Running
<1>2. /\ Base(stk) = c.func + 1 /\ Base(stk) \in Nat /\ FrameSize \in Nat /\ Base(stk) + FrameSize <= stk.last + Extra
      /\ stk.last + Extra \in Nat /\ IsLua(Frame.fn) /\ ~Frame.ret /\ Frame.ready
  BY <1>1 DEF Numbers
<1>3. /\ a \in Nat /\ n \in Int /\ n >= -1
      /\ Later(Frame, f1) /\ f1.regs = f1.want.pre /\ f1.want.post = <<>> /\ f1.want.n = n /\ Len(f1.want.pre) = a
      /\ IsSeq(f1.want.pre) /\ (n >= 0 <=> f1.open = -1) /\ (n >= 0 => a + n <= FrameSize)
  BY DEF CallReady
<1>4. IsSeq(f1.want.post) /\ Len(f1.want.post) = 0
  BY <1>3, Singles
<1>5. f1.ready /\ ~f1.ret /\ IsLua(f1.fn) /\ FnInfo[f1.fn].size = FrameSize /\ f1.fn = Frame.fn
  BY <1>2, <1>3 DEF Later, FrameSize
<1>6. DealOK(g, x, K, c, f1)
  <2>1. x.kind \in Server /\ x.kind \notin {"calls", "pcall", "meta", "tfor", "close", "ctail"}
    BY DEF Server, Helper
  <2> HIDE DEF c, K
  <2> QED
    BY <1>3, <1>4, <1>5, <2>1 DEF DealOK
<1>7. WaitOK(g, x, c, f1, n, func)
  <2>1. x.kind \notin {"meta", "close", "ctail"}
    OBVIOUS
  <2>2. n >= 0 => func + n <= g.last + Extra
    <3> DEFINE b == Base(stk)
               e == stk.last + Extra
               d == g.last + Extra
    <3>1. e <= d /\ d \in Int
      BY <1>1, ExtraNat DEF Agree, StackOK
    <3>2. b \in Nat /\ b + FrameSize <= e /\ e \in Nat
      BY <1>2
    <3> HIDE DEF b, e, d
    <3>3. n >= 0 => b + a + n <= d
      BY <1>2, <1>3, <3>1, <3>2
    <3> QED
      BY <3>3 DEF b, d
  <2>3. func = c.func + 1 + Len(f1.want.pre)
    BY <1>2, <1>3
  <2>4. f1.open = -1 => Len(f1.want.pre) + f1.want.n + Len(f1.want.post) <= FnInfo[f1.fn].size
    BY <1>2, <1>3, <1>4, <1>5
  <2> HIDE DEF c, K, func
  <2> QED
    BY <1>3, <2>1, <2>2, <2>3, <2>4 DEF WaitOK
<1>8. InPlace(g, Base(stk), f1.regs) /\ Base(stk) + Len(f1.regs) <= func
  BY <1>2, <1>3
<1> HIDE DEF c, func, K
<1>9. DealOK(g, x, Len(lua), Last(stk.cis), f1) /\ WaitOK(g, x, Last(stk.cis), f1, n, func)
  BY <1>6, <1>7 DEF c, K
<1>10. /\ OneOK(g, x, Len(lua), Last(stk.cis), f1, n, func)
       /\ Low(Last(stk.cis), f1) = Low(Last(stk.cis), Frame) /\ Agree(stk, g, Low(Last(stk.cis), Frame))
  BY <1>2, <1>3, <1>8, <1>9, WaitingFrame
<1> QED
  BY <1>10 DEF func

(* Rt_Call, whatever it calls.                                             *)
LEMMA RtCallKeeps ==
  ASSUME NEW link, Running(link), Frame.ready, NEW m, NEW a, NEW nargs, NEW n, NEW f1, NEW fn, NEW args,
         CallReady(m, a, nargs, n, f1, fn, args), RtCall(m, a, nargs, n, f1, args),
         rax' = rax, rep' = rep, prog' = prog, fuel' \in Nat
  PROVE  DataInv' /\ HandsOver
<1> DEFINE func == Base(m) + a
           t == func + 1 + nargs
           g == IF nargs = MULTRET THEN m ELSE Topped(m, t)
           c == Last(stk.cis)
           K == Len(lua)
<1>1. Numbers /\ StackOK(stk)
  BY RunningNumbers DEF Running
<1>2. /\ StackOK(m) /\ Agree(stk, m, Base(stk)) /\ m.cis = stk.cis
      /\ a \in Nat /\ n \in Int /\ n >= -1 /\ fn \in DOMAIN FnInfo /\ IsSeq(args) /\ Callable(fn, args)
      /\ Has(m, Base(stk) + a, fn) /\ InPlace(m, Base(stk) + a + 1, args)
      /\ IF nargs = MULTRET THEN m.top = Base(stk) + a + 1 + Len(args) ELSE nargs = Len(args)
      /\ IsSeq(f1.want.pre) /\ InPlace(m, Base(stk), f1.want.pre)
  BY DEF CallReady
<1>3. Base(m) = Base(stk) /\ Base(stk) \in Nat /\ func \in Nat /\ Len(args) \in Nat /\ func = Base(stk) + a
  <2>1. Base(m) = Base(stk)
    BY <1>2 DEF Base
  <2>2. Base(stk) \in Nat
    BY <1>1 DEF Numbers
  <2> QED
    BY <1>2, <2>1, <2>2, SeqFacts
<1> HIDE DEF func
<1>5. /\ StackOK(g) /\ g.cis = stk.cis /\ g.top = func + 1 + Len(args)
      /\ (\A b : Agree(m, g, b)) /\ (\A at, vs : InPlace(m, at, vs) => InPlace(g, at, vs))
      /\ SameSlots(m, g)
  <2>1. CASE nargs = MULTRET
    <3>1. g = m /\ SameSlots(m, m)
      BY <1>2, <2>1 DEF SameSlots
    <3> HIDE DEF g
    <3> QED
      BY <1>2, <1>3, <2>1, <3>1, SlotsKept
  <2>2. CASE nargs # MULTRET
    <3>1. g = Topped(m, t) /\ t \in Nat /\ t = func + 1 + Len(args)
      BY <1>2, <1>3, <2>2
    <3> HIDE DEF g, t
    <3>2. SameSlots(m, g) /\ g.top = t /\ g.cis = m.cis
      BY <1>2, <3>1, ToppedDoes
    <3>3. StackOK(g)
      BY <3>2 DEF SameSlots
    <3> QED
      BY <1>2, <3>1, <3>2, <3>3, SlotsKept
  <2> QED
    BY <2>1, <2>2
<1>6. RtCall(m, a, nargs, n, f1, args) =
       IF IsLua(At(m, func))
       THEN /\ stk' = EnterNative(g, func, n)
            /\ nat' = nat \o <<Act("rtcall", a, n), Body>>
            /\ lua' = Append(Now(f1), Called(At(m, func), args))
       ELSE LuaDCall(g, func, n, Append(nat, Act("slow", 0, n)), f1, args)
  BY DEF RtCall, func
<1> HIDE DEF g
<1>7. At(m, func) = fn
  BY <1>2, <1>3, HasOne
<1>8. Ready(g, func, fn, args) /\ InPlace(g, Base(stk), f1.want.pre) /\ Agree(stk, g, Base(stk))
  <2>1. Has(g, func, fn)
    BY <1>2, <1>3, <1>5, HasOne
  <2>2. Ready(g, func, fn, args)
    BY <1>2, <1>3, <1>5, <2>1 DEF Ready
  <2>3. Agree(stk, g, Base(stk))
    <3>1. Agree(stk, m, Base(stk)) /\ Agree(m, g, Base(stk)) /\ Base(stk) \in Int
      BY <1>2, <1>3, <1>5
    <3> QED
      BY <1>1, <3>1, AgreeSteps
  <2> QED
    BY <1>2, <1>5, <2>2, <2>3
<1>9. /\ HoldsOK(stk, lua, nat, link) /\ Len(link) = K - 1 /\ IsSeq(nat) /\ Serving(nat, link)
      /\ rax' = -1 /\ rep' = FALSE /\ prog \in Programs /\ c = stk.cis[K] /\ Frame = lua[K]
  BY DEF Running, HoldsOK
<1> HIDE DEF c, K
<1>10. ASSUME NEW x, (x.kind = "rtcall" /\ x.a = a) \/ x.kind = "slow", x.n = n
       PROVE  OneOK(g, x, K, c, f1, n, func) /\ Low(c, f1) = Low(c, Frame) /\ Agree(stk, g, Low(c, Frame))
  BY <1>3, <1>8, <1>10, RtCallWaits DEF c, K
<1>11. ASSUME NEW x, (x.kind = "rtcall" /\ x.a = a) \/ x.kind = "slow", x.n = n,
              Handed(g, func, n, nat, x, f1, fn, args), NoVarargs => Exact(stk', func, fn)
       PROVE  DataInv' /\ HandsOver
  <2>1. OneOK(g, x, K, c, f1, n, func) /\ Low(c, f1) = Low(c, Frame) /\ Agree(stk, g, Low(c, Frame))
    BY <1>10, <1>11
  <2>2. /\ Agree(stk, g, Low(stk.cis[Len(lua)], lua[Len(lua)])) /\ OneOK(g, x, Len(lua), stk.cis[Len(lua)], f1, n, func)
        /\ Low(stk.cis[Len(lua)], f1) = Low(stk.cis[Len(lua)], lua[Len(lua)]) /\ Len(link) = Len(lua) - 1
    BY <1>9, <2>1 DEF K
  <2>3. Callable(fn, args) /\ g.cis = stk.cis
    BY <1>2, <1>5
  <2>4. \A j \in 1..Len(link) : nat[link[j]] = nat[link[j]]
    OBVIOUS
  <2>5. DataInv'
    BY <1>8, <1>9, <1>11, <2>2, <2>3, <2>4, CallKeeps
  <2>6. HandsOver
    <3>1. stk.last <= g.last
      BY <1>8 DEF Agree
    <3>2. NoVarargs => OpenFine(f1) /\ Exact(stk', func, fn)
      BY <1>11 DEF CallReady
    <3>3. x.kind # "tfor" /\ nat = nat
      BY <1>11
    <3> QED
      BY <1>8, <1>11, <2>3, <3>1, <3>2, <3>3 DEF HandsOver
  <2> QED
    BY <2>5, <2>6
<1>12. CASE IsLua(fn)
  <2> DEFINE x == Act("rtcall", a, n)
             z == Body
  <2>1. stk' = EnterNative(g, func, n) /\ nat' = nat \o <<x, z>> /\ lua' = Append(Now(f1), Called(fn, args))
    BY <1>6, <1>7, <1>12
  <2>2. x.kind = "rtcall" /\ x.a = a /\ x.n = n /\ z.kind = "body"
    BY DEF Act, Body
  <2>3. Entered(g, stk', func, n, fn, args)
    <3>1. n \in Int /\ n >= -1
      BY <1>2
    <3> QED
      BY <1>8, <1>12, <2>1, <3>1, NativeEnters
  <2> HIDE DEF x, z
  <2>4. nat' = Append(Append(nat, x), z)
    BY <1>9, <2>1, TwoLonger
  <2>5. z.kind \notin Server
    BY <2>2 DEF Server, Helper
  <2>6. Above(nat, x, nat') /\ nat'[Len(nat')] = z
    <3> DEFINE y == z
    <3>1. y.kind \notin Server
      BY <2>5
    <3> HIDE DEF y
    <3>2. /\ Above(nat, x, Append(nat, x) \o <<y, z>>)
          /\ Above(nat, x, Append(Append(nat, x), z))
          /\ Append(Append(nat, x), z)[Len(Append(Append(nat, x), z))] = z
      BY <1>9, <2>5, <3>1, AboveTwo
    <3> QED
      BY <2>4, <3>2
  <2>7. Handed(g, func, n, nat, x, f1, fn, args)
    BY <1>12, <2>1, <2>2, <2>3, <2>6 DEF Handed
  <2>8. NoVarargs => Exact(stk', func, fn)
    BY DEF CallReady, Exact
  <2> QED
    BY <2>7, <2>8, <2>2, <1>11
<1>13. CASE ~IsLua(fn)
  <2> DEFINE x == Act("slow", 0, n)
  <2>1. LuaDCall(g, func, n, Append(nat, x), f1, args)
    BY <1>6, <1>7, <1>13
  <2>2. x.kind = "slow" /\ x.n = n
    BY DEF Act
  <2> HIDE DEF x
  <2>3. Handed(g, func, n, nat, x, f1, fn, args) /\ Exact(stk', func, fn)
    BY <1>2, <1>8, <1>9, <2>1, LuaDCalls
  <2> QED
    BY <1>11, <2>2, <2>3
<1> QED
  BY <1>12, <1>13

(* What is passed to a function.                                           *)
LEMMA ArgsFacts ==
  ASSUME NEW fn \in DOMAIN FnInfo, NEW n \in Nat, fuel \in Nat, prog \in Programs
  PROVE  IsSeq(Args(fn, n)) /\ Len(Args(fn, n)) \in Nat /\ Callable(fn, Args(fn, n))
<1>1. IsSeq(Tokens(n)) /\ Len(Tokens(n)) = n
  BY TokensSeq
<1>2. Function(prog.inner)
  BY CallsAssumption DEF Function, TakesAnything
<1>3. CASE TakesAnything(fn)
  BY <1>1, <1>3 DEF Args, Callable, TakesAnything
<1>4. CASE ~TakesAnything(fn)
  <2> DEFINE o == <<prog.inner>>
             t == Tokens(n)
  <2>1. IsSeq(o) /\ Len(o) = 1 /\ o[1] = prog.inner
    BY Singles
  <2>2. IsSeq(t) /\ Len(t) = n /\ Args(fn, n) = o \o t
    BY <1>1, <1>4 DEF Args
  <2> HIDE DEF o, t
  <2>3. IsSeq(o \o t) /\ Len(o \o t) = Len(o) + Len(t) /\ \A i \in 1..Len(o) : (o \o t)[i] = o[i]
    BY <2>1, <2>2, Joined
  <2>4. Len(o \o t) >= 1 /\ (o \o t)[1] = prog.inner /\ Len(o \o t) \in Nat
    BY <2>1, <2>2, <2>3
  <2> QED
    BY <1>2, <2>2, <2>3, <2>4 DEF Callable
<1> QED
  BY <1>3, <1>4

(* What a program calls is a function.                                     *)
LEMMA ProgramFns == ASSUME prog \in Programs PROVE prog.fns \subseteq DOMAIN FnInfo /\ Function(prog.inner)
BY CallsAssumption DEF Function, TakesAnything

(* The function and its arguments, behind the registers.                   *)
LEMMA PushedCall ==
  ASSUME StackOK(stk), Numbers, Frame.ready, Frame.open = -1,
         NEW fn, NEW args, IsSeq(args), Live + 1 + Len(args) <= FrameSize
  PROVE  /\ StackOK(Pushed(<<fn>> \o args)) /\ Pushed(<<fn>> \o args).cis = stk.cis
         /\ Pushed(<<fn>> \o args).top = stk.top
         /\ Agree(stk, Pushed(<<fn>> \o args), Base(stk))
         /\ Has(Pushed(<<fn>> \o args), Here, fn) /\ InPlace(Pushed(<<fn>> \o args), Here + 1, args)
         /\ InPlace(Pushed(<<fn>> \o args), Base(stk), Frame.regs)
         /\ Pushed(<<fn>> \o args).last = stk.last
<1> DEFINE o == <<fn>>
           vs == o \o args
           m == Pushed(vs)
<1>1. IsSeq(o) /\ Len(o) = 1
  BY Singles
<1>2. Live \in Nat /\ FrameSize \in Nat /\ Base(stk) \in Nat /\ Here \in Nat /\ Base(stk) <= Here
  BY DEF Numbers
<1>3. Len(args) \in Nat
  BY SeqFacts
<1> HIDE DEF o
<1>4. IsSeq(vs) /\ Len(vs) = 1 + Len(args)
  <2>0. IsSeq(o)
    BY <1>1
  <2>1. IsSeq(o \o args) /\ Len(o \o args) = Len(o) + Len(args)
    BY <2>0, Joined
  <2> QED
    BY <1>1, <2>1
<1>5. Live + Len(vs) <= FrameSize
  BY <1>2, <1>3, <1>4
<1> HIDE DEF vs
<1>6. /\ StackOK(m) /\ m.cis = stk.cis /\ Agree(stk, m, Here) /\ m.top = stk.top /\ m.last = stk.last
      /\ InPlace(m, Base(stk), Frame.regs) /\ InPlace(m, Here, vs)
  BY <1>4, <1>5, PushedInPlace
<1> HIDE DEF m
<1>7. Agree(stk, m, Base(stk))
  BY <1>2, <1>6, AgreeBelow
<1>8. InPlace(m, Here, o) /\ InPlace(m, Here + Len(o), args)
  <2>1. InPlace(m, Here, o \o args)
    BY <1>6 DEF vs
  <2> QED
    BY <1>1, <1>6, <2>1, InPlaceJoined
<1>9. Has(m, Here, fn)
  BY <1>6, <1>8, HasOne DEF o
<1>10. InPlace(m, Here + 1, args)
  BY <1>1, <1>8
<1> QED
  BY <1>6, <1>7, <1>9, <1>10 DEF m, vs, o

(* A frame that waits.                                                     *)
LEMMA WaitsFields ==
  ASSUME Numbers, NEW keep, IsSeq(keep), NEW pre, NEW n, NEW post
  PROVE  /\ Later(Frame, Waits(keep, pre, n, post))
         /\ Waits(keep, pre, n, post).regs = keep /\ Waits(keep, pre, n, post).open = -1
         /\ Waits(keep, pre, n, post).want.pre = pre /\ Waits(keep, pre, n, post).want.n = n
         /\ Waits(keep, pre, n, post).want.post = post
         /\ DOMAIN Waits(keep, pre, n, post) = {"fn", "regs", "extra", "open", "ready", "closed", "ret", "want"}
<1> DEFINE f == Waits(keep, pre, n, post)
<1>1. /\ DOMAIN Frame = {"fn", "regs", "extra", "open", "ready", "closed", "ret", "want"} /\ Frame.closed \in BOOLEAN
  BY DEF Numbers
<1>2. /\ DOMAIN f = {"fn", "regs", "extra", "open", "ready", "closed", "ret", "want"}
      /\ f.regs = keep /\ f.open = -1 /\ f.want = [pre |-> pre, n |-> n, post |-> post]
      /\ f.fn = Frame.fn /\ f.extra = Frame.extra /\ f.ready = Frame.ready /\ f.ret = Frame.ret
      /\ f.closed \in BOOLEAN
  BY <1>1 DEF Waits
<1> HIDE DEF f
<1>3. f.want.pre = pre /\ f.want.n = n /\ f.want.post = post
  BY <1>2
<1>4. Later(Frame, f)
  BY <1>2 DEF Later
<1> QED
  BY <1>2, <1>3, <1>4 DEF f

(* f(1, 2).                                                                *)
LEMMA CallActionKeeps ==
  ASSUME LoopInv, DataInv, StackHolds, NEW fn \in prog.fns, NEW nargs \in Nat, NEW n \in Nat, Call(fn, nargs, n)
  PROVE  DataInv' /\ HandsOver
<1> DEFINE args == Args(fn, nargs)
           m == Pushed(<<fn>> \o args)
           f1 == Waits(Frame.regs, Frame.regs, n, <<>>)
<1>1. /\ Executes("call") /\ Live + 1 + Len(args) <= FrameSize /\ Live + n <= FrameSize
      /\ RtCall(m, Live, Len(args), n, f1, args)
      /\ rax' = rax /\ rep' = rep /\ prog' = prog
  BY DEF Call
<1>2. /\ Numbers /\ StackOK(stk) /\ Frame.ready /\ Frame.open = -1
      /\ fuel \in Nat /\ fuel' \in Nat
  BY <1>1, Executing
<1>3. PICK link : Running(link)
  BY <1>1, Executing
<1>4. fn \in DOMAIN FnInfo /\ prog \in Programs
  BY <1>3, ProgramFns DEF Running
<1>5. IsSeq(args) /\ Len(args) \in Nat /\ Callable(fn, args)
  BY <1>2, <1>4, ArgsFacts
<1> HIDE DEF args
<1>6. /\ StackOK(m) /\ m.cis = stk.cis /\ Agree(stk, m, Base(stk))
      /\ Has(m, Here, fn) /\ InPlace(m, Here + 1, args) /\ InPlace(m, Base(stk), Frame.regs)
  BY <1>1, <1>2, <1>5, PushedCall
<1>7. /\ IsSeq(Frame.regs) /\ Live = Len(Frame.regs) /\ Live \in Nat /\ Here = Base(stk) + Live
  BY <1>2 DEF Numbers
<1>8. /\ Later(Frame, f1) /\ f1.regs = Frame.regs /\ f1.open = -1 /\ f1.want.pre = Frame.regs /\ f1.want.n = n
      /\ f1.want.post = <<>>
  BY <1>2, <1>7, WaitsFields
<1> HIDE DEF m, f1
<1>9. CallReady(m, Live, Len(args), n, f1, fn, args)
  <2>1. Len(args) # MULTRET /\ n \in Int /\ n >= -1 /\ n >= 0
    BY <1>5 DEF MULTRET
  <2>2. NoVarargs => OpenFine(f1) /\ ~FnInfo[fn].vararg
    BY <1>8 DEF NoVarargs, OpenFine
  <2> QED
    BY <1>1, <1>4, <1>5, <1>6, <1>7, <1>8, <2>1, <2>2 DEF CallReady
<1> QED
  BY <1>1, <1>2, <1>3, <1>9, RtCallKeeps

(* f(1, g()): g is called first, and f waits in a register.                *)
LEMMA OpenCallKeeps ==
  ASSUME LoopInv, DataInv, StackHolds, NEW fn \in prog.fns, NEW h \in prog.fns, OpenCall(fn, h)
  PROVE  DataInv' /\ HandsOver
<1> DEFINE args == Args(h, 0)
           two == <<fn, h>>
           vs == two \o args
           m == Pushed(vs)
           kept == Frame.regs \o <<fn>>
           w1 == Waits(kept, kept, MULTRET, <<>>)
           f1 == [w1 EXCEPT !.open = Live]
<1>1. /\ Executes("open") /\ TakesAnything(fn) /\ Live + 2 + Len(args) <= FrameSize
      /\ RtCall(m, Live + 1, Len(args), MULTRET, f1, args)
      /\ rax' = rax /\ rep' = rep /\ prog' = prog
  BY DEF OpenCall
<1>2. /\ Numbers /\ StackOK(stk) /\ Frame.ready /\ Frame.open = -1
      /\ fuel \in Nat /\ fuel' \in Nat
  BY <1>1, Executing
<1>3. PICK link : Running(link)
  BY <1>1, Executing
<1>4. fn \in DOMAIN FnInfo /\ h \in DOMAIN FnInfo /\ prog \in Programs
  BY <1>3, ProgramFns DEF Running
<1>5. IsSeq(args) /\ Len(args) \in Nat /\ Callable(h, args)
  <2> DEFINE z == 0
  <2>1. z \in Nat
    OBVIOUS
  <2> HIDE DEF z
  <2>2. IsSeq(Args(h, z)) /\ Len(Args(h, z)) \in Nat /\ Callable(h, Args(h, z))
    BY <1>2, <1>4, <2>1, ArgsFacts
  <2> QED
    BY <2>2 DEF z
<1> HIDE DEF args
<1>6. IsSeq(two) /\ Len(two) = 2 /\ two[1] = fn /\ two[2] = h
  BY Singles
<1> HIDE DEF two
<1>7. /\ IsSeq(vs) /\ Len(vs) = 2 + Len(args) /\ vs[1] = fn /\ vs[2] = h
  <2>1. /\ IsSeq(two \o args) /\ Len(two \o args) = Len(two) + Len(args)
        /\ \A i \in 1..Len(two) : (two \o args)[i] = two[i]
    BY <1>5, <1>6, Joined
  <2>2. 1 \in 1..Len(two) /\ 2 \in 1..Len(two)
    BY <1>6
  <2> QED
    BY <1>6, <2>1, <2>2
<1>8. /\ IsSeq(Frame.regs) /\ Live = Len(Frame.regs) /\ Live \in Nat /\ Here = Base(stk) + Live
      /\ Here \in Nat /\ Base(stk) \in Nat /\ Base(stk) <= Here /\ FrameSize \in Nat
      /\ FrameSize = FnInfo[Frame.fn].size
  BY <1>2 DEF Numbers, FrameSize
<1> HIDE DEF vs
<1>9. Live + Len(vs) <= FrameSize
  <2>1. Live + 2 + Len(args) <= FrameSize /\ Len(vs) = 2 + Len(args) /\ Len(args) \in Nat /\ Live \in Nat /\ FrameSize \in Nat
    BY <1>1, <1>5, <1>7, <1>8
  <2> QED
    BY <2>1
<1>10. /\ StackOK(m) /\ m.cis = stk.cis /\ Agree(stk, m, Here)
       /\ InPlace(m, Base(stk), Frame.regs) /\ InPlace(m, Here, vs)
  BY <1>2, <1>7, <1>9, PushedInPlace
<1> HIDE DEF m
<1>11. Has(m, Here, fn) /\ Has(m, Here + 1, h) /\ InPlace(m, Here + 2, args)
  <2>1. \A i \in 1..Len(vs) : Has(m, Here + i - 1, vs[i])
    BY <1>7, <1>10, HasOne
  <2>2. 1 \in 1..Len(vs) /\ 2 \in 1..Len(vs) /\ Here + 1 - 1 = Here /\ Here + 2 - 1 = Here + 1
    BY <1>5, <1>7, <1>8
  <2>3. InPlace(m, Here, two \o args)
    BY <1>10 DEF vs
  <2>4. InPlace(m, Here + Len(two), args)
    BY <1>5, <1>6, <1>10, <2>3, InPlaceJoined
  <2>5. Has(m, Here + 1 - 1, vs[1]) /\ Has(m, Here + 2 - 1, vs[2])
    BY <2>1, <2>2
  <2> QED
    BY <1>6, <1>7, <2>2, <2>4, <2>5
<1>12. IsSeq(kept) /\ Len(kept) = Live + 1 /\ kept[Live + 1] = fn
  <2> DEFINE s == Frame.regs
  <2>1. IsSeq(s) /\ Len(s) = Live
    BY <1>8
  <2> HIDE DEF s
  <2>2. IsSeq(s \o <<fn>>) /\ Len(s \o <<fn>>) = Len(s) + 1 /\ (s \o <<fn>>)[Len(s) + 1] = fn
    BY <2>1, OneMore
  <2> QED
    BY <2>1, <2>2 DEF s
<1>13. InPlace(m, Base(stk), kept)
  <2> DEFINE o == <<fn>>
  <2>1. IsSeq(o)
    BY Singles
  <2>2. InPlace(m, Here, o)
    BY <1>10, <1>11, HasOne
  <2> HIDE DEF o
  <2>3. InPlace(m, Base(stk) + Len(Frame.regs), o)
    BY <1>8, <2>2
  <2>4. InPlace(m, Base(stk), Frame.regs \o o)
    BY <1>8, <1>10, <2>1, <2>3, InPlaceJoined
  <2> QED
    BY <2>4 DEF o
<1> HIDE DEF kept
<1>14. /\ Later(Frame, w1) /\ w1.regs = kept /\ w1.open = -1 /\ w1.want.pre = kept /\ w1.want.n = MULTRET
       /\ w1.want.post = <<>>
       /\ DOMAIN w1 = {"fn", "regs", "extra", "open", "ready", "closed", "ret", "want"}
  BY <1>2, <1>12, WaitsFields
<1> HIDE DEF w1
<1>15. Function(fn)
  BY <1>1, <1>4 DEF Function
<1>16. /\ Later(Frame, f1) /\ f1.open = Live /\ f1.regs = kept /\ f1.want = w1.want
  <2>1. f1.open = Live /\ f1.regs = kept /\ f1.want = w1.want /\ f1.fn = w1.fn /\ f1.extra = w1.extra
        /\ f1.ready = w1.ready /\ f1.ret = w1.ret /\ f1.closed = w1.closed
        /\ DOMAIN f1 = DOMAIN w1
    BY <1>14
  <2> HIDE DEF f1
  <2>2. Live + 1 <= Len(kept) /\ Live < FnInfo[Frame.fn].size /\ Function(kept[Live + 1])
    BY <1>1, <1>5, <1>8, <1>12, <1>15
  <2> QED
    BY <1>8, <1>12, <1>14, <2>1, <2>2 DEF Later
<1> HIDE DEF f1
<1>17. CallReady(m, Live + 1, Len(args), MULTRET, f1, h, args)
  <2> DEFINE a == Live + 1
             n == MULTRET
  <2>1. Len(args) # MULTRET /\ n \in Int /\ n >= -1 /\ ~(n >= 0) /\ ~(f1.open = -1) /\ a \in Nat
    BY <1>5, <1>8, <1>16 DEF MULTRET
  <2>2. Agree(stk, m, Base(stk))
    BY <1>2, <1>8, <1>10, AgreeBelow
  <2>3. Base(stk) + a = Here + 1 /\ Base(stk) + a + 1 = Here + 2 /\ Len(kept) = a
    BY <1>8, <1>12, SMTT(30)
  <2> HIDE DEF a
  <2>4. f1.want.n = n /\ (NoVarargs => OpenFine(f1) /\ ~FnInfo[h].vararg)
    <3>1. f1.want.n = n
      BY <1>14, <1>16
    <3>2. f1.open = Live /\ f1.regs[Live + 1] = fn
      BY <1>12, <1>16
    <3>3. NoVarargs => OpenFine(f1) /\ ~FnInfo[h].vararg
      BY <3>2 DEF NoVarargs, OpenFine
    <3> QED
      BY <3>1, <3>3
  <2> HIDE DEF n
  <2>5. CallReady(m, a, Len(args), n, f1, h, args)
    BY <1>4, <1>5, <1>10, <1>11, <1>12, <1>13, <1>14, <1>16, <2>1, <2>2, <2>3, <2>4 DEF CallReady
  <2> QED
    BY <2>5 DEF a, n
<1> QED
  BY <1>1, <1>2, <1>3, <1>17, RtCallKeeps

(* The parts of an open list: what is kept, the function, the arguments.   *)
LEMMA OpenParts ==
  ASSUME StackOK(stk), Numbers, Frame.open >= 0
  PROVE  /\ IsSeq(SubSeq(Frame.regs, 1, Frame.open)) /\ Len(SubSeq(Frame.regs, 1, Frame.open)) = Frame.open
         /\ IsSeq(OpenArgs) /\ Len(OpenArgs) = Live - Frame.open - 1 /\ Len(OpenArgs) \in Nat
         /\ InPlace(stk, Base(stk), SubSeq(Frame.regs, 1, Frame.open))
         /\ InPlace(stk, Base(stk) + Frame.open + 1, OpenArgs)
         /\ Has(stk, Base(stk) + Frame.open, Frame.regs[Frame.open + 1])
         /\ Function(Frame.regs[Frame.open + 1])
         /\ stk.top = Base(stk) + Frame.open + 1 + Len(OpenArgs)
         /\ Frame.open \in Nat /\ Frame.ready /\ Frame.open < FrameSize
<1>1. /\ IsSeq(Frame.regs) /\ Live = Len(Frame.regs) /\ Live \in Nat /\ Base(stk) \in Nat /\ Frame.open \in Nat
      /\ Frame.open + 1 <= Live /\ stk.top = Base(stk) + Live /\ Function(Frame.regs[Frame.open + 1])
      /\ InPlace(stk, Base(stk), Frame.regs) /\ Frame.ready /\ Frame.open < FrameSize
  BY DEF Numbers
<1> DEFINE s == Frame.regs
           w == Base(stk)
           o == Frame.open
           a == 1
           d == o + 2
           v == Live
<1>2. IsSeq(s) /\ Len(s) = v /\ v \in Nat /\ w \in Nat /\ o \in Nat /\ o + 1 <= v /\ InPlace(stk, w, s)
  BY <1>1
<1> HIDE DEF s, w, o, v
<1>3. a = 1 /\ d = o + 2
  OBVIOUS
<1> HIDE DEF a, d
<1>4. /\ a \in 1..(v + 1) /\ o \in (a - 1)..v /\ d \in 1..(v + 1) /\ v \in (d - 1)..v
      /\ w + a - 1 = w /\ w + d - 1 = w + o + 1 /\ o - a + 1 = o /\ v - d + 1 = v - o - 1 /\ v - o - 1 \in Nat
      /\ o + 1 \in 1..v /\ w + (o + 1) - 1 = w + o /\ w + o + 1 + (v - o - 1) = w + v
  BY <1>2, <1>3
<1>5. IsSeq(SubSeq(s, a, o)) /\ Len(SubSeq(s, a, o)) = o
  BY <1>2, <1>4, Part
<1>6. IsSeq(SubSeq(s, d, v)) /\ Len(SubSeq(s, d, v)) = v - o - 1
  BY <1>2, <1>4, Part
<1>7. InPlace(stk, w, SubSeq(s, a, o))
  <2>1. InPlace(stk, w + a - 1, SubSeq(s, a, o))
    BY <1>2, <1>4, InPlacePart
  <2> QED
    BY <1>4, <2>1
<1>8. InPlace(stk, w + o + 1, SubSeq(s, d, v))
  <2>1. InPlace(stk, w + d - 1, SubSeq(s, d, v))
    BY <1>2, <1>4, InPlacePart
  <2> QED
    BY <1>4, <2>1
<1>9. Has(stk, w + o, s[o + 1])
  <2> DEFINE i == o + 1
  <2>1. i \in 1..Len(s) /\ w + i - 1 = w + o
    BY <1>2, <1>4
  <2> HIDE DEF i
  <2>2. Has(stk, w + i - 1, s[i])
    BY <1>2, <2>1, HasOne
  <2>3. Has(stk, w + o, s[i])
    BY <2>1, <2>2
  <2> QED
    BY <2>3 DEF i
<1>10. SubSeq(s, a, o) = SubSeq(Frame.regs, 1, Frame.open) /\ SubSeq(s, d, v) = OpenArgs
  BY DEF s, a, o, d, v, OpenArgs
<1>11. stk.top = w + o + 1 + Len(OpenArgs)
  <2>1. stk.top = w + v /\ Len(OpenArgs) = v - o - 1
    BY <1>1, <1>6, <1>10 DEF w, v
  <2> QED
    BY <1>2, <2>1
<1>12. IsSeq(OpenArgs) /\ Len(OpenArgs) = Live - Frame.open - 1 /\ Len(OpenArgs) \in Nat
  BY <1>4, <1>6, <1>10 DEF v, o
<1> QED
  BY <1>1, <1>5, <1>7, <1>8, <1>9, <1>10, <1>11, <1>12 DEF w, o, s

(* f(g()): the call that takes an open list.                               *)
LEMMA CallOpenKeeps ==
  ASSUME LoopInv, DataInv, StackHolds, NEW n \in Counts, CallOpen(n)
  PROVE  DataInv' /\ HandsOver
<1> DEFINE args == OpenArgs
           a == Frame.open
           fn == Frame.regs[a + 1]
           keep == SubSeq(Frame.regs, 1, Frame.open)
           f1 == Waits(keep, keep, n, <<>>)
<1>1. /\ Runs("body") /\ Frame.open >= 0 /\ a + n <= FrameSize
      /\ RtCall(stk, a, MULTRET, n, f1, args)
      /\ rax' = rax /\ rep' = rep /\ prog' = prog /\ fuel' = fuel
  BY DEF CallOpen, Consumes
<1>2. PICK link : Running(link)
  BY <1>1, BodyFacts
<1>3. Numbers /\ StackOK(stk) /\ prog \in Programs /\ fuel' \in Nat
  BY <1>1, <1>2, RunningNumbers DEF Running
<1>4. n \in Nat
  BY CallsAssumption
<1>5. IsSeq(keep) /\ Len(keep) = a /\ InPlace(stk, Base(stk), keep)
  BY <1>1, <1>3, OpenParts
<1>6. IsSeq(args) /\ Len(args) \in Nat /\ InPlace(stk, Base(stk) + a + 1, args)
  BY <1>1, <1>3, OpenParts
<1>7. Has(stk, Base(stk) + a, fn) /\ Function(fn)
  BY <1>1, <1>3, OpenParts
<1>8. stk.top = Base(stk) + a + 1 + Len(args) /\ a \in Nat /\ Frame.ready
  BY <1>1, <1>3, OpenParts
<1> HIDE DEF args, keep, fn
<1>9. /\ Later(Frame, f1) /\ f1.regs = keep /\ f1.open = -1 /\ f1.want.pre = keep /\ f1.want.n = n
      /\ f1.want.post = <<>>
  BY <1>3, <1>5, WaitsFields
<1> HIDE DEF f1, a
<1>10. fn \in DOMAIN FnInfo /\ Callable(fn, args)
  BY <1>7 DEF Function, TakesAnything, Callable
<1>11. CallReady(stk, a, MULTRET, n, f1, fn, args)
  <2>1. n \in Int /\ n >= -1 /\ n >= 0
    BY <1>4
  <2>2. Agree(stk, stk, Base(stk))
    BY <1>3, AgreeSteps
  <2>3. NoVarargs => OpenFine(f1) /\ ~FnInfo[fn].vararg
    BY <1>1, <1>3, <1>9 DEF NoVarargs, OpenFine, Numbers, fn, a
  <2> QED
    BY <1>1, <1>3, <1>5, <1>6, <1>7, <1>8, <1>9, <1>10, <2>1, <2>2, <2>3 DEF CallReady
<1> QED
  BY <1>1, <1>2, <1>3, <1>8, <1>11, RtCallKeeps

(* A helper that has luaD_call run a function for a native body.           *)
LEMMA HelperKeeps ==
  ASSUME NEW link, Running(link), Frame.ready, NEW m, m.cis = stk.cis, Agree(stk, m, Base(stk)),
         NEW f1, Later(Frame, f1), InPlace(m, Base(stk), f1.regs),
         NEW func, Base(stk) + Len(f1.regs) <= func, NEW n \in Int, n >= -1, NEW x,
         DealOK(m, x, Len(lua), Last(stk.cis), f1), WaitOK(m, x, Last(stk.cis), f1, n, func),
         NEW fn, NEW args, Ready(m, func, fn, args), Callable(fn, args),
         LuaDCall(m, func, n, Append(nat, x), f1, args),
         x.kind = "tfor" => "tfor" \in prog.ops, NoVarargs => OpenFine(f1),
         rax' = rax, rep' = rep, prog' = prog, fuel' \in Nat
  PROVE  DataInv' /\ HandsOver
<1>1. /\ HoldsOK(stk, lua, nat, link) /\ Len(link) = Len(lua) - 1 /\ IsSeq(nat) /\ Serving(nat, link)
      /\ rax' = -1 /\ rep' = FALSE /\ prog \in Programs
      /\ Last(stk.cis) = stk.cis[Len(lua)] /\ Frame = lua[Len(lua)]
  BY DEF Running, HoldsOK
<1>2. /\ OneOK(m, x, Len(lua), Last(stk.cis), f1, n, func)
      /\ Low(Last(stk.cis), f1) = Low(Last(stk.cis), Frame) /\ Agree(stk, m, Low(Last(stk.cis), Frame))
  BY WaitingFrame
<1>3. Handed(m, func, n, nat, x, f1, fn, args) /\ Exact(stk', func, fn)
  BY <1>1, LuaDCalls
<1>4. /\ OneOK(m, x, Len(lua), stk.cis[Len(lua)], f1, n, func)
      /\ Low(stk.cis[Len(lua)], f1) = Low(stk.cis[Len(lua)], lua[Len(lua)])
      /\ Agree(stk, m, Low(stk.cis[Len(lua)], lua[Len(lua)]))
  BY <1>1, <1>2
<1>5. \A j \in 1..Len(link) : nat[link[j]] = nat[link[j]]
  OBVIOUS
<1>6. DataInv'
  BY <1>1, <1>3, <1>4, <1>5, CallKeeps
<1>7. HandsOver
  <2>1. stk.last <= m.last /\ nat = nat
    BY DEF Agree
  <2> QED
    BY <1>3, <2>1 DEF HandsOver
<1> QED
  BY <1>6, <1>7

(* g is m with a call ready at t.                                          *)
IsReady(m, g, t, fn, args) ==
  Ready(g, t, fn, args) /\ Agree(m, g, t) /\ g.cis = m.cis /\ g.last = m.last

(* A function and its arguments, put somewhere and topped.                 *)
LEMMA PutCall ==
  ASSUME NEW m, StackOK(m), NEW t \in Nat, NEW fn \in DOMAIN FnInfo, NEW args, IsSeq(args),
         NEW k, k = t + 1 + Len(args), k <= m.last + Extra
  PROVE  IsReady(m, Topped(Put(m, t, <<fn>> \o args), k), t, fn, args)
<1> DEFINE o == <<fn>>
           vs == o \o args
           p == Put(m, t, vs)
           g == Topped(p, k)
<1>1. IsSeq(o) /\ Len(o) = 1
  BY Singles
<1>2. Len(args) \in Nat /\ k \in Nat
  BY SeqFacts
<1> HIDE DEF o
<1>3. IsSeq(vs) /\ Len(vs) = 1 + Len(args)
  <2>0. IsSeq(o)
    BY <1>1
  <2>1. IsSeq(o \o args) /\ Len(o \o args) = Len(o) + Len(args)
    BY <2>0, Joined
  <2> QED
    BY <1>1, <2>1
<1> HIDE DEF vs
<1>4. StackOK(p) /\ p.cis = m.cis /\ p.last = m.last /\ InPlace(p, t, vs) /\ Agree(m, p, t)
  <2>1. t + Len(vs) <= m.last + Extra
    BY <1>2, <1>3
  <2> QED
    BY <1>3, <2>1, PutDoes
<1> HIDE DEF p
<1>5. SameSlots(p, g) /\ g.top = k /\ g.cis = p.cis
  BY <1>2, <1>4, ToppedDoes
<1> HIDE DEF g
<1>6. StackOK(g) /\ g.last = m.last /\ Agree(p, g, t) /\ InPlace(g, t, vs)
  BY <1>4, <1>5, SlotsKept DEF SameSlots
<1>7. Agree(m, g, t)
  BY <1>4, <1>6, AgreeSteps
<1>8. InPlace(g, t, o) /\ InPlace(g, t + Len(o), args)
  <2>1. InPlace(g, t, o \o args)
    BY <1>6 DEF vs
  <2> QED
    BY <1>1, <1>6, <2>1, InPlaceJoined
<1>9. Has(g, t, fn) /\ InPlace(g, t + 1, args)
  BY <1>1, <1>6, <1>8, HasOne DEF o
<1>10. Ready(g, t, fn, args)
  BY <1>5, <1>6, <1>9 DEF Ready
<1> QED
  BY <1>4, <1>5, <1>6, <1>7, <1>10 DEF g, p, vs, o, IsReady

(* Where a helper calls a function above all registers of the frame.       *)
CallAbove(m, t, fn, args) ==
  /\ Ready(m, t, fn, args) /\ Agree(stk, m, Base(stk)) /\ InPlace(m, Base(stk), Frame.regs)
  /\ m.cis = stk.cis /\ m.last = stk.last /\ StackOK(m)

(* It finds the frame as it was.                                           *)
LEMMA AboveCall ==
  ASSUME StackOK(stk), Numbers, NEW q, SameSlots(stk, q), q.cis = stk.cis,
         NEW t \in Nat, Here <= t, t <= Room(stk),
         NEW fn \in DOMAIN FnInfo, NEW args, IsSeq(args), Len(args) = 2
  PROVE  CallAbove(Topped(Put(q, t, <<fn>> \o args), t + 3), t, fn, args)
<1> DEFINE k == t + 3
           m == Topped(Put(q, t, <<fn>> \o args), k)
<1>1. /\ Base(stk) \in Nat /\ Here \in Nat /\ Base(stk) <= Here /\ Here = Base(stk) + Live
      /\ Room(stk) + 3 = stk.last + Extra /\ Room(stk) \in Nat /\ IsSeq(Frame.regs) /\ Live = Len(Frame.regs)
      /\ InPlace(stk, Base(stk), Frame.regs)
  BY DEF Numbers
<1>2. StackOK(q) /\ q.last = stk.last /\ Agree(stk, q, t)
  BY SlotsKept DEF SameSlots
<1>3. k = t + 1 + Len(args) /\ k <= q.last + Extra
  <2> DEFINE e == stk.last + Extra
             d == q.last + Extra
  <2>1. d = e /\ Room(stk) + 3 = e /\ Room(stk) \in Nat
    BY <1>1, <1>2
  <2> HIDE DEF e, d
  <2>2. k <= d /\ k = t + 1 + 2
    BY <2>1
  <2> QED
    BY <2>2 DEF d
<1> HIDE DEF k
<1>4. IsReady(q, m, t, fn, args)
  BY <1>2, <1>3, PutCall
<1> HIDE DEF m
<1>5. Ready(m, t, fn, args) /\ Agree(q, m, t) /\ m.cis = stk.cis /\ m.last = stk.last
  BY <1>2, <1>4 DEF IsReady
<1>6. Agree(stk, m, t)
  BY <1>2, <1>5, AgreeSteps
<1>7. Agree(stk, m, Base(stk))
  <2>1. Base(stk) <= t /\ Base(stk) \in Int
    BY <1>1
  <2> QED
    BY <1>6, <2>1, AgreeBelow
<1>8. InPlace(m, Base(stk), Frame.regs)
  <2>1. Base(stk) + Len(Frame.regs) <= t
    BY <1>1
  <2> QED
    BY <1>1, <1>6, <2>1, StaysInPlace
<1>9. CallAbove(m, t, fn, args)
  BY <1>5, <1>7, <1>8 DEF CallAbove, Ready
<1> QED
  BY <1>9 DEF m, k

(* The result of a metamethod goes between what is kept.                   *)
LEMMA AroundOne ==
  ASSUME NEW m, StackOK(m), NEW w, NEW s, IsSeq(s), InPlace(m, w, s), NEW r \in 0..(Len(s) - 1)
  PROVE  /\ IsSeq(SubSeq(s, 1, r)) /\ Len(SubSeq(s, 1, r)) = r
         /\ IsSeq(SubSeq(s, r + 2, Len(s))) /\ Len(SubSeq(s, r + 2, Len(s))) = Len(s) - r - 1
         /\ InPlace(m, w, SubSeq(s, 1, r)) /\ InPlace(m, w + r + 1, SubSeq(s, r + 2, Len(s)))
<1> DEFINE a == 1
           d == r + 2
           v == Len(s)
<1>1. v \in Nat /\ w \in Nat /\ v = Len(s)
  BY SeqFacts DEF InPlace
<1>2. a = 1 /\ d = r + 2 /\ r \in 0..(v - 1)
  OBVIOUS
<1> HIDE DEF a, d, v
<1>3. /\ a \in 1..(v + 1) /\ r \in (a - 1)..v /\ d \in 1..(v + 1) /\ v \in (d - 1)..v
      /\ w + a - 1 = w /\ w + d - 1 = w + r + 1 /\ r - a + 1 = r /\ v - d + 1 = v - r - 1
  BY <1>1, <1>2
<1>4. IsSeq(SubSeq(s, a, r)) /\ Len(SubSeq(s, a, r)) = r
  BY <1>1, <1>3, Part
<1>5. IsSeq(SubSeq(s, d, v)) /\ Len(SubSeq(s, d, v)) = v - r - 1
  BY <1>1, <1>3, Part
<1>6. InPlace(m, w, SubSeq(s, a, r))
  <2>1. InPlace(m, w + a - 1, SubSeq(s, a, r))
    BY <1>1, <1>3, InPlacePart
  <2> QED
    BY <1>3, <2>1
<1>7. InPlace(m, w + r + 1, SubSeq(s, d, v))
  <2>1. InPlace(m, w + d - 1, SubSeq(s, d, v))
    BY <1>1, <1>3, InPlacePart
  <2> QED
    BY <1>3, <2>1
<1> QED
  BY <1>4, <1>5, <1>6, <1>7 DEF a, d, v

(* A metamethod runs above the ceiling of the frame.                       *)
LEMMA MetaKeeps ==
  ASSUME LoopInv, DataInv, StackHolds, NEW r \in 0..(Live - 1), Meta(r)
  PROVE  DataInv' /\ HandsOver
<1> DEFINE q == Claimed(stk)
           args == Tokens(2)
           fn == prog.inner
           t == q.top
           m == Topped(Put(q, t, <<fn>> \o args), t + 3)
           x == Act("meta", r, 0)
           pre == SubSeq(Frame.regs, 1, r)
           post == SubSeq(Frame.regs, r + 2, Live)
           n == 1
           f1 == Waits(Frame.regs, pre, n, post)
           c == Last(stk.cis)
<1>1. /\ Executes("meta") /\ LuaDCall(m, t, n, Append(nat, x), f1, args)
      /\ rax' = rax /\ rep' = rep /\ prog' = prog
  BY DEF Meta
<1>2. /\ Numbers /\ StackOK(stk) /\ Frame.ready /\ Frame.open = -1 /\ Live <= FrameSize
      /\ fuel \in Nat /\ fuel' \in Nat
  BY <1>1, Executing
<1>3. PICK link : Running(link)
  BY <1>1, Executing
<1>4. fn \in DOMAIN FnInfo /\ Function(fn)
  BY <1>3, ProgramFns DEF Running, Function
<1>5. IsSeq(args) /\ Len(args) = 2
  BY <1>2, TokensSeq
<1> HIDE DEF args, fn
<1>6. /\ IsSeq(Frame.regs) /\ Live = Len(Frame.regs) /\ Live \in Nat
      /\ Base(stk) = c.func + 1 /\ FrameSize = FnInfo[Frame.fn].size /\ FrameSize \in Nat
      /\ IsLua(Frame.fn) /\ ~Frame.ret
  BY <1>2 DEF Numbers, FrameSize
<1>7. SameSlots(stk, q) /\ q.top = c.top /\ q.cis = stk.cis
  <2> DEFINE k == c.top
  <2>1. k \in Nat
    BY <1>2 DEF Numbers
  <2> HIDE DEF k
  <2>2. SameSlots(stk, Topped(stk, k)) /\ Topped(stk, k).top = k /\ Topped(stk, k).cis = stk.cis
    BY <1>2, <2>1, ToppedDoes
  <2> QED
    BY <2>2 DEF k, Claimed
<1> HIDE DEF q
<1>8. t \in Nat /\ Here <= t /\ t <= Room(stk)
  <2> DEFINE ct == c.top
             rm == Room(stk)
             b == Base(stk)
             e == stk.last + Extra
  <2>1. /\ t = ct /\ ct \in Nat /\ ct <= rm /\ b \in Nat /\ b + FrameSize <= ct /\ FrameSize \in Nat
        /\ Live \in Nat /\ Live <= FrameSize /\ Here = b + Live /\ rm + 3 = e /\ e \in Nat /\ rm \in Nat
    BY <1>2, <1>7 DEF Numbers
  <2> HIDE DEF ct, rm, b, e, t
  <2>2. t \in Nat /\ Here <= t /\ t <= rm
    BY <2>1
  <2> QED
    BY <2>2 DEF rm
<1> HIDE DEF t
<1>9. CallAbove(m, t, fn, args)
  BY <1>2, <1>4, <1>5, <1>7, <1>8, AboveCall
<1> HIDE DEF m
<1>10. /\ Ready(m, t, fn, args) /\ Agree(stk, m, Base(stk)) /\ InPlace(m, Base(stk), Frame.regs)
       /\ m.cis = stk.cis /\ m.last = stk.last /\ StackOK(m)
  BY <1>9 DEF CallAbove
<1>11. /\ IsSeq(pre) /\ Len(pre) = r /\ IsSeq(post) /\ Len(post) = Live - r - 1
       /\ InPlace(m, Base(stk), pre) /\ InPlace(m, Base(stk) + r + 1, post)
  <2> DEFINE s == Frame.regs
  <2>1. IsSeq(s) /\ InPlace(m, Base(stk), s) /\ r \in 0..(Len(s) - 1)
    BY <1>6, <1>10
  <2> HIDE DEF s
  <2>2. /\ IsSeq(SubSeq(s, 1, r)) /\ Len(SubSeq(s, 1, r)) = r
        /\ IsSeq(SubSeq(s, r + 2, Len(s))) /\ Len(SubSeq(s, r + 2, Len(s))) = Len(s) - r - 1
        /\ InPlace(m, Base(stk), SubSeq(s, 1, r)) /\ InPlace(m, Base(stk) + r + 1, SubSeq(s, r + 2, Len(s)))
    BY <1>10, <2>1, AroundOne
  <2>3. SubSeq(s, 1, r) = pre /\ SubSeq(s, r + 2, Len(s)) = post /\ Len(s) = Live
    BY <1>6 DEF s
  <2> QED
    BY <2>2, <2>3
<1> HIDE DEF pre, post
<1>12. n \in Int /\ n >= -1 /\ n = 1
  OBVIOUS
<1> HIDE DEF n
<1>13. /\ Later(Frame, f1) /\ f1.regs = Frame.regs /\ f1.open = -1 /\ f1.want.pre = pre /\ f1.want.n = n
       /\ f1.want.post = post
  BY <1>2, <1>6, WaitsFields
<1> HIDE DEF f1, c
<1>14. f1.ready /\ ~f1.ret /\ IsLua(f1.fn) /\ FnInfo[f1.fn].size = FrameSize
  BY <1>2, <1>6, <1>13 DEF Later
<1>15. x.kind = "meta" /\ x.a = r
  BY DEF Act
<1> HIDE DEF x
<1>16. DealOK(m, x, Len(lua), c, f1)
  BY <1>11, <1>12, <1>13, <1>14, <1>15 DEF DealOK, Server, Helper
<1>17. WaitOK(m, x, c, f1, n, t)
  <2> DEFINE p == Len(pre)
             o == Len(post)
             e == m.last + Extra
  <2>1. p = r /\ o = Live - r - 1 /\ r \in Int /\ Live \in Nat /\ Live <= FrameSize /\ Room(stk) + 3 = e /\ t <= Room(stk)
        /\ Room(stk) \in Nat /\ t \in Nat /\ FrameSize \in Nat
    BY <1>2, <1>6, <1>8, <1>10, <1>11, SMTT(30) DEF Numbers
  <2> HIDE DEF p, o, e
  <2>2. Live = p + 1 + o /\ p + n + o <= FrameSize /\ t + n <= e
    BY <1>12, <2>1
  <2>3. Len(f1.regs) = Len(f1.want.pre) + 1 + Len(f1.want.post)
    BY <1>6, <1>13, <2>2 DEF p, o
  <2>4. InPlace(m, c.func + 1, f1.want.pre)
    BY <1>6, <1>11, <1>13
  <2>5. InPlace(m, c.func + 1 + Len(f1.want.pre) + 1, f1.want.post)
    BY <1>6, <1>11, <1>13
  <2>6. Len(f1.want.pre) + f1.want.n + Len(f1.want.post) <= FnInfo[f1.fn].size
    BY <1>13, <1>14, <2>2 DEF p, o
  <2>7. t + f1.want.n <= m.last + Extra
    BY <1>13, <2>2 DEF e
  <2> QED
    BY <1>13, <1>15, <2>3, <2>4, <2>5, <2>6, <2>7 DEF WaitOK
<1>18. InPlace(m, Base(stk), f1.regs) /\ Base(stk) + Len(f1.regs) <= t
  <2>1. Here = Base(stk) + Len(f1.regs)
    BY <1>2, <1>6, <1>13 DEF Numbers
  <2> QED
    BY <1>8, <1>10, <1>13, <2>1
<1>19. Callable(fn, args)
  BY <1>4 DEF Function, TakesAnything, Callable
<1>20. WaitOK(m, x, Last(stk.cis), f1, n, t) /\ DealOK(m, x, Len(lua), Last(stk.cis), f1)
  BY <1>16, <1>17 DEF c
<1>21. LuaDCall(m, t, n, Append(nat, x), f1, args)
  BY <1>1
<1>22. x.kind # "tfor" /\ OpenFine(f1)
  BY <1>13, <1>15 DEF OpenFine
<1> QED
  BY <1>1, <1>2, <1>3, <1>10, <1>12, <1>13, <1>18, <1>19, <1>20, <1>21, <1>22, HelperKeeps

(* A closer runs above the top, or the ceiling, of the frame.              *)
LEMMA CloseKeeps ==
  ASSUME LoopInv, DataInv, StackHolds, Close
  PROVE  DataInv' /\ HandsOver
<1> DEFINE c == Last(stk.cis)
           t == Max({stk.top, c.top})
           args == <<Token(1), nil>>
           fn == prog.inner
           m == Topped(Put(stk, t, <<fn>> \o args), t + 3)
           x == Act("close", 0, stk.top)
           n == 0
           none == <<>>
           w1 == Waits(Frame.regs, Frame.regs, n, none)
           f1 == [w1 EXCEPT !.open = Frame.open, !.closed = TRUE]
<1>1. /\ Runs("body") /\ Frame.ready /\ LuaDCall(m, t, n, Append(nat, x), f1, args)
      /\ rax' = rax /\ rep' = rep /\ prog' = prog /\ fuel' = fuel
  BY DEF Close
<1>2. PICK link : Running(link)
  BY <1>1, BodyFacts
<1>3. Numbers /\ StackOK(stk) /\ prog \in Programs /\ fuel' \in Nat
  BY <1>1, <1>2, RunningNumbers DEF Running
<1>4. fn \in DOMAIN FnInfo /\ Function(fn)
  BY <1>3, ProgramFns DEF Function
<1>5. IsSeq(args) /\ Len(args) = 2
  BY Singles
<1> HIDE DEF args, fn
<1>6. /\ IsSeq(Frame.regs) /\ Live = Len(Frame.regs) /\ Live \in Nat
      /\ Base(stk) = c.func + 1 /\ FrameSize = FnInfo[Frame.fn].size /\ FrameSize \in Nat
      /\ IsLua(Frame.fn) /\ ~Frame.ret /\ Frame.open \in Int /\ Frame.open >= -1
      /\ (Frame.open = -1 => Live <= FrameSize) /\ (Frame.open >= 0 => stk.top = Base(stk) + Live)
      /\ stk.top \in Nat /\ stk.top <= Room(stk)
      /\ Frame.open >= 0 => Frame.open + 1 <= Live /\ Frame.open < FrameSize /\ Function(Frame.regs[Frame.open + 1])
  BY <1>1, <1>3 DEF Numbers, FrameSize
<1>8. t \in Nat /\ Here <= t /\ t <= Room(stk)
  <2> DEFINE ct == c.top
             rm == Room(stk)
             b == Base(stk)
             e == stk.last + Extra
             s == stk.top
             o == Frame.open
  <2>1. /\ ct \in Nat /\ ct <= rm /\ b \in Nat /\ b + FrameSize <= ct /\ FrameSize \in Nat
        /\ Live \in Nat /\ Here = b + Live /\ rm + 3 = e /\ e \in Nat /\ rm \in Nat /\ s \in Nat /\ s <= rm
        /\ o \in Int /\ o >= -1 /\ (o = -1 => Live <= FrameSize) /\ (o >= 0 => s = b + Live)
    BY <1>3, <1>6 DEF Numbers
  <2> HIDE DEF ct, rm, b, e, s, o
  <2>2. t = IF s >= ct THEN s ELSE ct
    BY <2>1, MaxOfTwo DEF s, ct
  <2> HIDE DEF t
  <2>3. t \in Nat /\ Here <= t /\ t <= rm
    <3>1. CASE o = -1
      BY <2>1, <2>2, <3>1
    <3>2. CASE o # -1
      BY <2>1, <2>2, <3>2
    <3> QED
      BY <3>1, <3>2
  <2> QED
    BY <2>3 DEF rm
<1> HIDE DEF t
<1>9. CallAbove(m, t, fn, args)
  <2>1. SameSlots(stk, stk) /\ stk.cis = stk.cis
    BY <1>3 DEF SameSlots
  <2> QED
    BY <1>3, <1>4, <1>5, <1>8, <2>1, AboveCall
<1> HIDE DEF m
<1>10. /\ Ready(m, t, fn, args) /\ Agree(stk, m, Base(stk)) /\ InPlace(m, Base(stk), Frame.regs)
       /\ m.cis = stk.cis /\ m.last = stk.last /\ StackOK(m)
  BY <1>9 DEF CallAbove
<1>11. IsSeq(none) /\ Len(none) = 0 /\ none = <<>>
  BY Singles
<1> HIDE DEF none
<1>12. n \in Int /\ n >= -1 /\ n = 0
  OBVIOUS
<1> HIDE DEF n
<1>13. /\ Later(Frame, w1) /\ w1.regs = Frame.regs /\ w1.want.pre = Frame.regs /\ w1.want.n = n
       /\ w1.want.post = none
       /\ DOMAIN w1 = {"fn", "regs", "extra", "open", "ready", "closed", "ret", "want"}
  BY <1>3, <1>6, WaitsFields
<1> HIDE DEF w1
<1>14. /\ Later(Frame, f1) /\ f1.open = Frame.open /\ f1.regs = Frame.regs /\ f1.want = w1.want /\ f1.closed = TRUE
  <2>1. f1.open = Frame.open /\ f1.regs = Frame.regs /\ f1.want = w1.want /\ f1.fn = w1.fn /\ f1.extra = w1.extra
        /\ f1.ready = w1.ready /\ f1.ret = w1.ret /\ f1.closed = TRUE
        /\ DOMAIN f1 = DOMAIN w1
    BY <1>13
  <2> HIDE DEF f1
  <2> QED
    BY <1>6, <1>13, <2>1 DEF Later
<1> HIDE DEF f1, c
<1>15. f1.ready /\ ~f1.ret /\ IsLua(f1.fn) /\ FnInfo[f1.fn].size = FrameSize
  BY <1>1, <1>6, <1>14 DEF Later
<1>16. x.kind = "close" /\ x.n = stk.top
  BY DEF Act
<1> HIDE DEF x
<1>17. DealOK(m, x, Len(lua), c, f1)
  <2>1. x.n \in Nat /\ x.n <= Room(m)
    BY <1>6, <1>10, <1>16 DEF Room
  <2>2. f1.open >= 0 => x.n = c.func + 1 + Len(f1.want.pre)
    BY <1>6, <1>13, <1>14, <1>16
  <2>3. x.kind \in Server
    BY <1>16 DEF Server, Helper
  <2>4. f1.want.pre = Frame.regs /\ f1.want.n = 0 /\ f1.want.post = <<>> /\ IsSeq(f1.want.post)
    BY <1>11, <1>12, <1>13, <1>14
  <2> QED
    BY <1>6, <1>14, <1>15, <1>16, <2>1, <2>2, <2>3, <2>4 DEF DealOK
<1>18. WaitOK(m, x, c, f1, n, t)
  <2>1. f1.want.pre = Frame.regs /\ f1.want.n = n /\ f1.want.post = none /\ f1.regs = f1.want.pre
    BY <1>13, <1>14
  <2>2. t + n <= m.last + Extra
    <3> DEFINE e == stk.last + Extra
               d == m.last + Extra
    <3>1. d = e /\ e \in Nat /\ Room(stk) + 3 = e /\ Room(stk) \in Nat
      BY <1>3, <1>10 DEF Numbers
    <3> HIDE DEF e, d
    <3>3. t + n <= d
      BY <1>8, <1>12, <3>1
    <3> QED
      BY <3>3 DEF d
  <2>3. f1.open = -1 => Len(f1.want.pre) + f1.want.n + Len(f1.want.post) <= FnInfo[f1.fn].size
    BY <1>6, <1>11, <1>12, <1>14, <1>15, <2>1
  <2> QED
    BY <1>16, <2>1, <2>2, <2>3 DEF WaitOK
<1>19. InPlace(m, Base(stk), f1.regs) /\ Base(stk) + Len(f1.regs) <= t
  <2>1. Here = Base(stk) + Len(f1.regs)
    BY <1>3, <1>6, <1>14 DEF Numbers
  <2> QED
    BY <1>8, <1>10, <1>14, <2>1
<1>20. Callable(fn, args)
  BY <1>4 DEF Function, TakesAnything, Callable
<1>21. WaitOK(m, x, Last(stk.cis), f1, n, t) /\ DealOK(m, x, Len(lua), Last(stk.cis), f1)
  BY <1>17, <1>18 DEF c
<1>22. x.kind # "tfor" /\ (NoVarargs => OpenFine(f1))
  <2>1. f1.fn = Frame.fn /\ f1.ret = Frame.ret /\ f1.open = Frame.open /\ f1.regs = Frame.regs
    BY <1>14 DEF Later
  <2> QED
    BY <1>16, <2>1 DEF NoVarargs, OpenFine
<1> QED
  BY <1>1, <1>2, <1>3, <1>10, <1>12, <1>14, <1>19, <1>20, <1>21, <1>22, HelperKeeps

(* A generic for calls its iterator with copies of function and state.     *)
LEMMA TForCallKeeps ==
  ASSUME LoopInv, DataInv, StackHolds, NEW n \in Counts, TForCall(n)
  PROVE  DataInv' /\ HandsOver
<1> DEFINE fn == prog.inner
           args == Tokens(2)
           o == <<fn>>
           triple == o \o args
           one == <<nil>>
           four == triple \o one
           vs == four \o triple
           p == Pushed(vs)
           k == Here + 7
           m == Topped(p, k)
           t == Here + 4
           x == Act("tfor", 0, 0)
           r3 == Frame.regs \o triple
           keep == r3 \o one
           none == <<>>
           f1 == Waits(keep, keep, n, none)
           c == Last(stk.cis)
<1>1. /\ Executes("tfor") /\ Live + 7 <= FrameSize /\ Live + 4 + n <= FrameSize
      /\ LuaDCall(m, t, n, Append(nat, x), f1, args)
      /\ rax' = rax /\ rep' = rep /\ prog' = prog
  BY DEF TForCall
<1>2. /\ Numbers /\ StackOK(stk) /\ Frame.ready /\ Frame.open = -1 /\ Live <= FrameSize
      /\ fuel \in Nat /\ fuel' \in Nat
  BY <1>1, Executing
<1>3. PICK link : Running(link)
  BY <1>1, Executing
<1>4. fn \in DOMAIN FnInfo /\ Function(fn)
  BY <1>3, ProgramFns DEF Running, Function
<1>5. n \in Nat
  BY CallsAssumption
<1>6. IsSeq(args) /\ Len(args) = 2
  BY <1>2, TokensSeq
<1>7. IsSeq(o) /\ Len(o) = 1 /\ IsSeq(one) /\ Len(one) = 1 /\ IsSeq(none) /\ Len(none) = 0 /\ none = <<>>
  BY Singles
<1> HIDE DEF args, fn, one, none
<1>8. /\ IsSeq(Frame.regs) /\ Live = Len(Frame.regs) /\ Live \in Nat
      /\ Base(stk) = c.func + 1 /\ FrameSize = FnInfo[Frame.fn].size /\ FrameSize \in Nat
      /\ IsLua(Frame.fn) /\ ~Frame.ret /\ Base(stk) \in Nat /\ Here \in Nat /\ Base(stk) <= Here
      /\ Here = Base(stk) + Live
  BY <1>2 DEF Numbers, FrameSize
<1> HIDE DEF o
<1>9. IsSeq(triple) /\ Len(triple) = 3
  <2>1. IsSeq(o) /\ IsSeq(args)
    BY <1>6, <1>7
  <2>2. IsSeq(o \o args) /\ Len(o \o args) = Len(o) + Len(args)
    BY <2>1, Joined
  <2> QED
    BY <1>6, <1>7, <2>2
<1> HIDE DEF triple
<1>10. IsSeq(four) /\ Len(four) = 4
  <2>1. IsSeq(triple) /\ IsSeq(one)
    BY <1>7, <1>9
  <2>2. IsSeq(triple \o one) /\ Len(triple \o one) = Len(triple) + Len(one)
    BY <2>1, Joined
  <2> QED
    BY <1>7, <1>9, <2>2
<1> HIDE DEF four
<1>11. IsSeq(vs) /\ Len(vs) = 7
  <2>1. IsSeq(triple) /\ IsSeq(four)
    BY <1>9, <1>10
  <2>2. IsSeq(four \o triple) /\ Len(four \o triple) = Len(four) + Len(triple)
    BY <2>1, Joined
  <2> QED
    BY <1>9, <1>10, <2>2
<1>12. IsSeq(r3) /\ Len(r3) = Live + 3
  <2> DEFINE s == Frame.regs
  <2>1. IsSeq(triple) /\ IsSeq(s) /\ Len(s) = Live
    BY <1>8, <1>9
  <2> HIDE DEF s
  <2>2. IsSeq(s \o triple) /\ Len(s \o triple) = Len(s) + Len(triple)
    BY <2>1, Joined
  <2> QED
    BY <1>9, <2>1, <2>2 DEF s
<1> HIDE DEF r3
<1>13. IsSeq(keep) /\ Len(keep) = Live + 4
  <2>1. IsSeq(r3) /\ IsSeq(one)
    BY <1>7, <1>12
  <2>2. IsSeq(r3 \o one) /\ Len(r3 \o one) = Len(r3) + Len(one)
    BY <2>1, Joined
  <2>3. Len(r3) + Len(one) = Live + 4
    BY <1>7, <1>8, <1>12
  <2> QED
    BY <2>2, <2>3
<1> HIDE DEF vs, keep
<1>14. /\ StackOK(p) /\ p.cis = stk.cis /\ p.last = stk.last /\ Agree(stk, p, Here)
       /\ InPlace(p, Base(stk), Frame.regs) /\ InPlace(p, Here, vs)
  <2>1. Live + Len(vs) <= FrameSize
    BY <1>1, <1>11
  <2> QED
    BY <1>2, <1>11, <2>1, PushedInPlace
<1> HIDE DEF p
<1>15. SameSlots(p, m) /\ m.top = k /\ m.cis = stk.cis
  <2>1. k \in Nat
    BY <1>8
  <2> HIDE DEF k
  <2> QED
    BY <1>14, <2>1, ToppedDoes
<1> HIDE DEF m
<1>16. StackOK(m) /\ m.last = stk.last /\ Agree(stk, m, Base(stk)) /\ InPlace(m, Base(stk), Frame.regs)
       /\ InPlace(m, Here, vs)
  <2>1. StackOK(m) /\ m.last = stk.last
    BY <1>14, <1>15 DEF SameSlots
  <2>2. Agree(p, m, Here) /\ InPlace(m, Base(stk), Frame.regs) /\ InPlace(m, Here, vs)
    BY <1>14, <1>15, SlotsKept
  <2>3. Agree(stk, m, Here)
    <3>1. Here \in Int
      BY <1>8
    <3> QED
      BY <1>2, <1>14, <2>2, <3>1, AgreeSteps
  <2>4. Agree(stk, m, Base(stk))
    <3>1. Here \in Int /\ Base(stk) \in Int /\ Base(stk) <= Here
      BY <1>8
    <3> QED
      BY <1>2, <2>3, <3>1, AgreeBelow
  <2> QED
    BY <2>1, <2>2, <2>4
<1>17. InPlace(m, Here, four) /\ InPlace(m, t, triple)
  <2>1. InPlace(m, Here, four \o triple)
    BY <1>16 DEF vs
  <2> HIDE DEF t
  <2>2. InPlace(m, Here, four) /\ InPlace(m, Here + Len(four), triple)
    BY <1>9, <1>10, <1>16, <2>1, InPlaceJoined
  <2> QED
    BY <1>10, <2>2 DEF t
<1>18. InPlace(m, Here, triple) /\ InPlace(m, Here + 3, one)
  <2>1. InPlace(m, Here, triple \o one)
    BY <1>17 DEF four
  <2>2. InPlace(m, Here, triple) /\ InPlace(m, Here + Len(triple), one)
    BY <1>7, <1>9, <1>16, <2>1, InPlaceJoined
  <2> QED
    BY <1>9, <2>2
<1>19. InPlace(m, Base(stk), keep)
  <2>1. InPlace(m, Base(stk), r3)
    <3> DEFINE s == Frame.regs
               b == Base(stk)
    <3>1. IsSeq(s) /\ InPlace(m, b, s) /\ InPlace(m, b + Len(s), triple)
      BY <1>8, <1>16, <1>18
    <3> HIDE DEF s, b
    <3>2. InPlace(m, b, s \o triple)
      BY <1>9, <1>16, <3>1, InPlaceJoined
    <3> QED
      BY <3>2 DEF r3, s, b
  <2>2. InPlace(m, Base(stk) + Len(r3), one)
    <3>1. Base(stk) + Len(r3) = Here + 3
      BY <1>8, <1>12
    <3> QED
      BY <1>18, <3>1
  <2>3. InPlace(m, Base(stk), r3 \o one)
    BY <1>7, <1>12, <1>16, <2>1, <2>2, InPlaceJoined
  <2> QED
    BY <2>3 DEF keep
<1>20. Ready(m, t, fn, args)
  <2>1. InPlace(m, t, o) /\ InPlace(m, t + Len(o), args)
    <3>1. InPlace(m, t, o \o args)
      BY <1>17 DEF triple
    <3> HIDE DEF t
    <3> QED
      BY <1>6, <1>7, <1>16, <3>1, InPlaceJoined
  <2>2. Has(m, t, fn) /\ InPlace(m, t + 1, args)
    BY <1>7, <1>16, <2>1, HasOne DEF o
  <2>3. t \in Nat /\ m.top = t + 1 + Len(args)
    BY <1>6, <1>8, <1>15
  <2> HIDE DEF t
  <2> QED
    BY <1>4, <1>6, <1>16, <2>2, <2>3 DEF Ready
<1>21. /\ Later(Frame, f1) /\ f1.regs = keep /\ f1.open = -1 /\ f1.want.pre = keep /\ f1.want.n = n
       /\ f1.want.post = none
  BY <1>2, <1>13, WaitsFields
<1> HIDE DEF f1, c
<1>22. f1.ready /\ ~f1.ret /\ IsLua(f1.fn) /\ FnInfo[f1.fn].size = FrameSize
  BY <1>2, <1>8, <1>21 DEF Later
<1>23. x.kind = "tfor"
  BY DEF Act
<1> HIDE DEF x
<1>24. DealOK(m, x, Len(lua), c, f1)
  BY <1>5, <1>7, <1>13, <1>21, <1>22, <1>23 DEF DealOK, Server, Helper
<1>25. t = c.func + 1 + Len(keep) /\ t = Base(stk) + Len(f1.regs) /\ t + n <= m.last + Extra
  <2> DEFINE b == Base(stk)
             e == stk.last + Extra
             d == m.last + Extra
  <2>1. /\ b \in Nat /\ Here = b + Live /\ Live \in Nat /\ b + FrameSize <= e /\ e \in Nat /\ d = e
        /\ FrameSize \in Nat /\ Live + 4 + n <= FrameSize /\ c.func + 1 = b /\ Len(keep) = Live + 4 /\ f1.regs = keep
    BY <1>1, <1>2, <1>8, <1>13, <1>16, <1>21 DEF Numbers
  <2> HIDE DEF b, e, d
  <2>2. t = b + Len(keep) /\ t + n <= d
    BY <1>5, <2>1
  <2> QED
    BY <2>1, <2>2 DEF b, d
<1> HIDE DEF t
<1>26. WaitOK(m, x, c, f1, n, t)
  <2>1. Len(f1.want.pre) + f1.want.n + Len(f1.want.post) <= FnInfo[f1.fn].size
    BY <1>1, <1>5, <1>7, <1>8, <1>13, <1>21, <1>22
  <2> QED
    BY <1>21, <1>23, <1>25, <2>1 DEF WaitOK
<1>27. Callable(fn, args)
  BY <1>4 DEF Function, TakesAnything, Callable
<1>28. WaitOK(m, x, Last(stk.cis), f1, n, t) /\ DealOK(m, x, Len(lua), Last(stk.cis), f1)
  BY <1>24, <1>26 DEF c
<1>29. n \in Int /\ n >= -1
  BY <1>5
<1>30. InPlace(m, Base(stk), f1.regs) /\ Base(stk) + Len(f1.regs) <= t
  <2>1. Base(stk) + Len(f1.regs) \in Int
    BY <1>8, <1>13, <1>21
  <2> QED
    BY <1>19, <1>21, <1>25, <2>1
<1>31. "tfor" \in prog.ops /\ OpenFine(f1)
  BY <1>1, <1>21 DEF OpenFine, Executes
<1> QED
  BY <1>1, <1>2, <1>3, <1>15, <1>16, <1>20, <1>21, <1>27, <1>28, <1>29, <1>30, <1>31, HelperKeeps
=============================================================================
