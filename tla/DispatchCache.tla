--------------------------- MODULE DispatchCache ----------------------------
(***************************************************************************)
(* One thread's dispatch cache (jit/dispatch.c): Proto -> native entry.    *)
(* An array of entries in order of registration, an open-addressing table  *)
(* of indexes kept at four times the array's capacity, and a memo of the   *)
(* last successful lookup.  Either allocation of a growth may fail.        *)
(***************************************************************************)
EXTENDS Integers, Sequences, FiniteSetsExt, Functions

CONSTANTS Proto,       \* the Protos of the program
          Nil,         \* NULL
          HashProto,   \* their hash, before masking
          InitCap,     \* JIT_CACHE_INIT_CAP
          GrowFails    \* may an allocation fail?

ASSUME DispatchAssumption ==
  /\ Nil \notin Proto
  /\ HashProto \in [Proto -> Nat]
  /\ InitCap \in Nat \ {0}
  /\ GrowFails \in BOOLEAN

VARIABLES entries,  \* C->Entries[0 .. Count-1], each by its Proto
          cap,      \* C->Cap
          hash,     \* C->Hash: slot -> index of an entry; <<>> is NULL
          memo,     \* C->MemoP
          answer,   \* the last Jit_LookupCached and its outcome
          failed    \* a registration failed

vars == <<entries, cap, hash, memo, answer, failed>>

Empty == 0        \* -1 in the code, whose indexes start at 0

TypeOK ==
  /\ entries \in Seq(Proto)
  /\ cap \in Nat /\ Len(entries) <= cap
  /\ hash \in [0..(Cardinality(DOMAIN hash) - 1) -> 0..Len(entries)]
  /\ memo \in Proto \cup {Nil}
  /\ failed \in BOOLEAN

Init ==
  /\ entries = <<>> /\ cap = 0 /\ hash = <<>>
  /\ memo = Nil /\ answer = <<>> /\ failed = FALSE

-----------------------------------------------------------------------------
(* The probe sequence: the slots from the hash on, cyclically.             *)

Size(t) == Cardinality(DOMAIN t)
SlotAt(t, p, k) == (HashProto[p] + k) % Size(t)
Probes(t) == 0..(Size(t) - 1)

(* CacheFindIn: probe to the Proto or to an empty slot.                    *)
Find(p) ==
  LET stops == {k \in Probes(hash) : \/ hash[SlotAt(hash, p, k)] = Empty
                                    \/ entries[hash[SlotAt(hash, p, k)]] = p}
  IN  /\ entries # <<>> /\ hash # <<>>
      /\ stops # {} /\ hash[SlotAt(hash, p, Min(stops))] # Empty

(* An index is put into the first empty slot; into none if all are taken.  *)
Insert(t, p, i) ==
  LET free == {k \in Probes(t) : t[SlotAt(t, p, k)] = Empty} IN
  IF free = {} THEN t ELSE [t EXCEPT ![SlotAt(t, p, Min(free))] = i]

EmptyTable(n) == [s \in 0..(n - 1) |-> Empty]

(* Mutant: the grown table keeps the old slots.                            *)
RehashKept(n) ==
  [s \in 0..(n - 1) |-> IF s \in DOMAIN hash THEN hash[s] ELSE Empty]

(* The live entries inserted one by one into an empty table.               *)
Rehash(n) ==
  LET table[i \in 0..Len(entries)] ==
        IF i = 0 THEN EmptyTable(n) ELSE Insert(table[i - 1], entries[i], i)
  IN  table[Len(entries)]

NewCap == IF cap = 0 THEN InitCap ELSE 2 * cap

-----------------------------------------------------------------------------

(* The builder of the Protos gives up at the first registration that fails.*)
MayRegister == ~failed

(* RegisterIn of a Proto that is there: idempotent.                        *)
RegisterKnown(p) ==
  /\ MayRegister
  /\ Find(p)
  /\ UNCHANGED vars

(* Mutant: the capacity check is off by one.                               *)
RegisterInRoomPlusOne(p) ==
  /\ MayRegister
  /\ ~Find(p) /\ Len(entries) <= cap /\ hash # <<>>
  /\ entries' = Append(entries, p)
  /\ hash' = Insert(hash, p, Len(entries) + 1)
  /\ UNCHANGED <<cap, memo, answer, failed>>

(* RegisterIn with room in the array.                                      *)
RegisterInRoom(p) ==
  /\ MayRegister
  /\ ~Find(p) /\ Len(entries) < cap
  /\ entries' = Append(entries, p)
  /\ hash' = Insert(hash, p, Len(entries) + 1)
  /\ UNCHANGED <<cap, memo, answer, failed>>

(* CacheGrow succeeds, and the Proto is inserted.                          *)
RegisterGrowing(p) ==
  /\ MayRegister
  /\ ~Find(p) /\ Len(entries) >= cap
  /\ entries' = Append(entries, p)
  /\ cap' = NewCap
  /\ hash' = Insert(Rehash(4 * NewCap), p, Len(entries) + 1)
  /\ UNCHANGED <<memo, answer, failed>>

(* CacheGrow fails: at once, or with the array grown and the table not.    *)
RegisterFails(p) ==
  /\ GrowFails /\ MayRegister
  /\ ~Find(p) /\ Len(entries) >= cap
  /\ cap' \in {cap, NewCap}
  /\ failed' = TRUE
  /\ UNCHANGED <<entries, hash, memo, answer>>

(* Mutant: a miss is memoised too.                                         *)
LookupMemoisingMisses(p) ==
  /\ answer' = <<p, memo # p /\ Find(p)>>
  /\ memo' = p
  /\ UNCHANGED <<entries, cap, hash, failed>>

(* Jit_LookupCached: the memo, or a probe that is memoised if it succeeds. *)
Lookup(p) ==
  /\ LET found == memo = p \/ Find(p) IN
       /\ answer' = <<p, found>>
       /\ memo' = IF found THEN p ELSE memo
  /\ UNCHANGED <<entries, cap, hash, failed>>

Next ==
  \E p \in Proto :
    \/ RegisterKnown(p) \/ RegisterInRoom(p) \/ RegisterGrowing(p)
    \/ RegisterFails(p) \/ Lookup(p)

Spec == Init /\ [][Next]_vars

-----------------------------------------------------------------------------

(* The cache is a set of registered Protos: a registration adds exactly    *)
(* its Proto, across growths, collisions and failures, and a lookup        *)
(* answers from what was registered, memo or not.                          *)
Abs == INSTANCE DispatchAbs WITH known <- Range(entries)
ImplementsSet == Abs!Spec

(* Every entry is found by probing and nothing else is; and the table is   *)
(* never more than a quarter full, not even after a growth that got only   *)
(* the array, so a probe for a miss ends at an empty slot.                 *)
FindsRegistered ==
  /\ \A p \in Proto : Find(p) <=> p \in Range(entries)
  /\ 4 * Len(entries) <= Size(hash)
=============================================================================
