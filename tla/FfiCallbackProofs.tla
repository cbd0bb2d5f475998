------------------------- MODULE FfiCallbackProofs --------------------------
(* Proofs about FfiCallback, for any functions, signatures and bounds.     *)
EXTENDS FfiCallback, FiniteSetTheorems, TLAPS

(* A stub has its own slot's number baked in, and two slots never share a  *)
(* stub: what makes Callback_Dispatch and Ffi_FreeCallback agree.          *)
StubOfItsSlot == \A s \in InUse : stubs[slots[s].stub].slot = s

(* Every stub takes room: there are no more of them than units in the slab.*)
Fits == Len(stubs) <= used

IndInv == TypeOK /\ StubOfItsSlot /\ Fits /\ AnchoredExactly

(* The slots that run f.                                                   *)
Runs(f) == {s \in InUse : slots[s].fn = f}

-----------------------------------------------------------------------------

(* The slots in use are well-formed callbacks.                             *)
LEMMA SlotTypes ==
  ASSUME TypeOK, NEW s \in InUse
  PROVE  /\ s \in Slot /\ slots[s].inUse = TRUE
         /\ slots[s].fn \in Fn /\ slots[s].sig \in Sig
         /\ slots[s].stub \in 1..Len(stubs) /\ slots[s].stub \in Nat
         /\ slots[s] \in [inUse : {TRUE}, fn : Fn, sig : Sig, stub : 1..Len(stubs)]
<1>1. slots[s] # NoSlot
  BY DEF InUse, NoSlot
<1>2. slots[s] \in [inUse : {TRUE}, fn : Fn, sig : Sig, stub : 1..Len(stubs)]
  <2> HIDE DEF NoSlot
  <2> QED BY <1>1 DEF TypeOK, InUse
<1>3. slots[s].stub \in 1..Len(stubs) /\ slots[s].fn \in Fn /\ slots[s].sig \in Sig
  BY <1>2
<1>4. Len(stubs) \in Nat
  BY DEF TypeOK
<1>5. slots[s].inUse = TRUE /\ s \in Slot
  BY <1>2 DEF InUse
<1>6. slots[s].stub \in Nat
  BY ONLY <1>3, <1>4
<1> QED
  BY ONLY <1>2, <1>3, <1>5, <1>6

(* There are finitely many slots.                                          *)
LEMMA RunsFinite == \A f : IsFiniteSet(Runs(f)) /\ Cardinality(Runs(f)) \in Nat
<1>1. IsFiniteSet(Slot)
  BY CallbackAssumption, FS_Interval DEF Slot
<1>2. \A f : Runs(f) \in SUBSET Slot
  BY DEF Runs, InUse
<1> QED
  BY <1>1, <1>2, FS_Subset, FS_CardinalityType

(* The same in the next state.                                             *)
LEMMA RunsFiniteNext == \A f : IsFiniteSet(Runs(f)') /\ Cardinality(Runs(f)') \in Nat
<1>1. IsFiniteSet(Slot)
  BY CallbackAssumption, FS_Interval DEF Slot
<1>2. \A f : Runs(f)' \in SUBSET Slot
  BY DEF Runs, InUse, Slot
<1> QED
  BY <1>1, <1>2, FS_Subset, FS_CardinalityType

(* An address belongs to one slot.                                         *)
LEMMA OwnerUnique ==
  ASSUME TypeOK, StubOfItsSlot, NEW s \in InUse
  PROVE  Owner(slots[s].stub) = {s}
  BY DEF Owner, StubOfItsSlot

-----------------------------------------------------------------------------
(* Steps                                                                   *)

(* What Ffi_AllocCallback changes.                                         *)
LEMMA CastStep ==
  ASSUME TypeOK, NEW d \in CData, NEW fn \in Fn, NEW sig \in Sig, Cast(d, fn, sig)
  PROVE  \E s \in Slot \ InUse :
           /\ stubs' = Append(stubs, [slot |-> s, sig |-> sig])
           /\ Len(stubs') = Len(stubs) + 1
           /\ slots' = [slots EXCEPT ![s] =
                          [inUse |-> TRUE, fn |-> fn, sig |-> sig, stub |-> Len(stubs) + 1]]
           /\ InUse' = InUse \cup {s}
<1>1. PICK s \in FirstFree :
        /\ Appends(s, sig)
        /\ slots' = [slots EXCEPT ![s] = [inUse |-> TRUE, fn |-> fn, sig |-> sig, stub |-> Len(stubs')]]
  BY DEF Cast
<1>2. s \in Slot \ InUse
  BY DEF FirstFree, Free
<1>3. stubs' = Append(stubs, [slot |-> s, sig |-> sig]) /\ Len(stubs') = Len(stubs) + 1
  BY <1>1, <1>2 DEF Appends, TypeOK
<1>4. InUse' = InUse \cup {s}
  BY <1>1, <1>2 DEF InUse, TypeOK, Slot
<1> QED
  BY <1>1, <1>2, <1>3, <1>4

(* What Ffi_FreeCallback changes.                                          *)
LEMMA FreeStep ==
  ASSUME TypeOK, NEW d \in CData, FreeCallback(d)
  PROVE  \E s \in InUse :
           /\ slots[s].stub = ptr[d]
           /\ refs' = [refs EXCEPT ![slots[s].fn] = @ - 1]
           /\ slots' = [slots EXCEPT ![s] = NoSlot]
           /\ InUse' = InUse \ {s}
<1>1. PICK s \in Owner(ptr[d]) :
        /\ refs' = [refs EXCEPT ![slots[s].fn] = @ - 1]
        /\ slots' = [slots EXCEPT ![s] = NoSlot]
  BY DEF FreeCallback
<1>2. InUse' = InUse \ {s}
  BY <1>1 DEF InUse, TypeOK, Slot, NoSlot
<1> QED
  BY <1>1, <1>2 DEF Owner

(* What Ffi_SetCallback changes.                                           *)
LEMMA SetStep ==
  ASSUME TypeOK, NEW d \in CData, NEW fn \in Fn, SetCallback(d, fn)
  PROVE  \E s \in InUse :
           /\ slots[s].stub = ptr[d]
           /\ refs' = [f \in Fn |-> refs[f] + (IF f = fn THEN 1 ELSE 0)
                                            - (IF f = slots[s].fn THEN 1 ELSE 0)]
           /\ slots' = [slots EXCEPT ![s].fn = fn]
           /\ \A t \in InUse : slots'[t].inUse /\ slots'[t].stub = slots[t].stub
                               /\ slots'[t].sig = slots[t].sig
                               /\ slots'[t].fn = (IF t = s THEN fn ELSE slots[t].fn)
           /\ InUse' = InUse
<1>1. PICK s \in Owner(ptr[d]) :
        /\ refs' = [f \in Fn |-> refs[f] + (IF f = fn THEN 1 ELSE 0)
                                         - (IF f = slots[s].fn THEN 1 ELSE 0)]
        /\ slots' = [slots EXCEPT ![s].fn = fn]
  BY DEF SetCallback
<1>2. s \in InUse /\ slots[s] \in [inUse : {TRUE}, fn : Fn, sig : Sig, stub : 1..Len(stubs)]
  BY SlotTypes DEF Owner
<1>3. /\ slots'[s].inUse = TRUE /\ slots'[s].stub = slots[s].stub
      /\ slots'[s].sig = slots[s].sig /\ slots'[s].fn = fn
      /\ \A t \in Slot \ {s} : slots'[t] = slots[t]
  BY <1>1, <1>2 DEF TypeOK, InUse
<1>4. InUse' = InUse
  BY <1>2, <1>3 DEF InUse, Slot
<1>5. \A t \in InUse : slots'[t].inUse /\ slots'[t].stub = slots[t].stub
                      /\ slots'[t].sig = slots[t].sig
                      /\ slots'[t].fn = (IF t = s THEN fn ELSE slots[t].fn)
  BY <1>3 DEF InUse
<1>6. slots[s].stub = ptr[d]
  BY DEF Owner
<1> QED
  BY <1>1, <1>2, <1>4, <1>5, <1>6

-----------------------------------------------------------------------------
(* The invariant                                                           *)

(* Nothing is cast at the start.                                           *)
LEMMA InitIndInv == Init => IndInv
<1> SUFFICES ASSUME Init PROVE IndInv
  OBVIOUS
<1> USE CallbackAssumption DEF Init
<1>1. InUse = {}
  BY DEF InUse, NoSlot
<1>2. TypeOK
  <2>1. stubs \in Seq([slot : Slot, sig : Sig]) /\ calls \in Seq((1..Len(stubs)) \X [fn : Fn, sig : Sig])
    OBVIOUS
  <2>2. Len(calls) <= MaxDepth /\ used \in 0..SlabSize
    OBVIOUS
  <2>3. slots \in [Slot -> {NoSlot} \cup
                            [inUse : {TRUE}, fn : Fn, sig : Sig, stub : 1..Len(stubs)]]
    OBVIOUS
  <2>5. Len(stubs) = 0
    OBVIOUS
  <2>6. refs \in [Fn -> Nat] /\ executable \in BOOLEAN
    OBVIOUS
  <2>7. 0 \in 0..Len(stubs)
    BY <2>5
  <2>4. refs \in [Fn -> Nat] /\ ptr \in [CData -> 0..Len(stubs)] /\ executable \in BOOLEAN
    BY <2>6, <2>7
  <2> QED
    BY ONLY <2>1, <2>2, <2>3, <2>4 DEF TypeOK
<1>3. StubOfItsSlot /\ Fits
  BY <1>1 DEF StubOfItsSlot, Fits
<1>4. AnchoredExactly
  <2>1. \A f : {s \in InUse : slots[s].fn = f} = {}
    BY <1>1
  <2> QED
    BY <2>1, FS_EmptySet DEF AnchoredExactly
<1> QED
  BY <1>2, <1>3, <1>4 DEF IndInv

(* Every ffi.cast adds a reference, every free drops one, cb:set swaps.    *)
LEMMA NextAnchored == IndInv /\ [Next]_vars => AnchoredExactly'
<1> SUFFICES ASSUME IndInv, [Next]_vars PROVE AnchoredExactly'
  OBVIOUS
<1> USE DEF IndInv
<1>0. \A f \in Fn : refs[f] = Cardinality(Runs(f))
  BY DEF AnchoredExactly, Runs
<1>a. SUFFICES \A f \in Fn : refs'[f] = Cardinality(Runs(f)')
  BY DEF AnchoredExactly, Runs
<1>1. ASSUME NEW d \in CData, NEW fn \in Fn, NEW sig \in Sig, Cast(d, fn, sig)
      PROVE \A f \in Fn : refs'[f] = Cardinality(Runs(f)')
  <2>1. PICK s \in Slot \ InUse :
          /\ slots' = [slots EXCEPT ![s] =
                         [inUse |-> TRUE, fn |-> fn, sig |-> sig, stub |-> Len(stubs) + 1]]
          /\ InUse' = InUse \cup {s}
    BY <1>1, CastStep
  <2>2. slots'[s].fn = fn /\ \A t \in InUse : slots'[t] = slots[t]
    BY <2>1 DEF InUse, TypeOK
  <2>3. \A f \in Fn : Runs(f)' = IF f = fn THEN Runs(f) \cup {s} ELSE Runs(f)
    BY <2>1, <2>2 DEF Runs
  <2>4. \A f \in Fn : s \notin Runs(f)
    BY <2>1 DEF Runs
  <2>5. refs' = [refs EXCEPT ![fn] = @ + 1]
    BY <1>1 DEF Cast
  <2> QED
    <3> SUFFICES ASSUME NEW f \in Fn PROVE refs'[f] = Cardinality(Runs(f)')
      OBVIOUS
    <3>1. Cardinality(Runs(f) \cup {s}) = Cardinality(Runs(f)) + 1
      BY <2>4, RunsFinite, FS_AddElement
    <3>2. refs'[f] = IF f = fn THEN refs[f] + 1 ELSE refs[f]
      BY <2>5 DEF TypeOK
    <3> QED
      BY <1>0, <2>3, <3>1, <3>2
<1>2. ASSUME NEW d \in CData, FreeCallback(d)
      PROVE \A f \in Fn : refs'[f] = Cardinality(Runs(f)')
  <2>1. PICK s \in InUse :
          /\ refs' = [refs EXCEPT ![slots[s].fn] = @ - 1]
          /\ slots' = [slots EXCEPT ![s] = NoSlot]
          /\ InUse' = InUse \ {s}
    BY <1>2, FreeStep
  <2>2. \A t \in InUse \ {s} : slots'[t] = slots[t]
    BY <2>1 DEF InUse, TypeOK
  <2>3. \A f \in Fn : Runs(f)' = Runs(f) \ {s}
    BY <2>1, <2>2 DEF Runs
  <2>4. \A f \in Fn : s \in Runs(f) <=> f = slots[s].fn
    BY <2>1 DEF Runs
  <2> QED
    BY <1>0, <2>1, <2>3, <2>4, RunsFinite, FS_RemoveElement DEF TypeOK
<1>3. ASSUME NEW d \in CData, NEW fn \in Fn, SetCallback(d, fn)
      PROVE \A f \in Fn : refs'[f] = Cardinality(Runs(f)')
  <2>1. PICK s \in InUse :
          /\ refs' = [f \in Fn |-> refs[f] + (IF f = fn THEN 1 ELSE 0)
                                           - (IF f = slots[s].fn THEN 1 ELSE 0)]
          /\ \A t \in InUse : slots'[t].fn = (IF t = s THEN fn ELSE slots[t].fn)
          /\ InUse' = InUse
    BY <1>3, SetStep
  <2>2. \A f \in Fn : Runs(f)' = IF f = fn THEN Runs(f) \cup {s} ELSE Runs(f) \ {s}
    BY <2>1 DEF Runs
  <2>3. \A f \in Fn : s \in Runs(f) <=> f = slots[s].fn
    BY <2>1 DEF Runs
  <2>4. ASSUME NEW f \in Fn, f = fn PROVE refs'[f] = Cardinality(Runs(f)')
    <3>1. Cardinality(Runs(f) \cup {s}) = IF s \in Runs(f) THEN Cardinality(Runs(f)) ELSE Cardinality(Runs(f)) + 1
      BY RunsFinite, FS_AddElement
    <3>2. refs'[f] = IF f = slots[s].fn THEN refs[f] + 1 - 1 ELSE refs[f] + 1 - 0
      BY <2>1, <2>4
    <3> QED
      BY <1>0, <2>2, <2>3, <2>4, <3>1, <3>2, RunsFinite
  <2>5. ASSUME NEW f \in Fn, f # fn PROVE refs'[f] = Cardinality(Runs(f)')
    <3>1. Cardinality(Runs(f) \ {s}) = IF s \in Runs(f) THEN Cardinality(Runs(f)) - 1 ELSE Cardinality(Runs(f))
      BY RunsFinite, FS_RemoveElement
    <3>2. refs'[f] = IF f = slots[s].fn THEN refs[f] + 0 - 1 ELSE refs[f] + 0 - 0
      BY <2>1, <2>5
    <3>3. Cardinality(Runs(f)) \in Nat /\ refs[f] = Cardinality(Runs(f))
      BY <1>0, RunsFinite
    <3>4. Runs(f)' = Runs(f) \ {s} /\ (s \in Runs(f) <=> f = slots[s].fn)
      BY <2>2, <2>3, <2>5
    <3> QED
      BY ONLY <3>1, <3>2, <3>3, <3>4
  <2> QED
    BY <2>4, <2>5
<1>4. ASSUME UNCHANGED <<slots, refs>>
      PROVE \A f \in Fn : refs'[f] = Cardinality(Runs(f)')
  BY <1>0, <1>4 DEF Runs, InUse, Slot
<1>5. ASSUME NEW sig \in Sig, CastRefused(sig) PROVE UNCHANGED <<slots, refs>>
  BY <1>5 DEF CastRefused
<1>6. ASSUME NEW d \in CData, NEW e \in CData, CopyPtr(d, e) PROVE UNCHANGED <<slots, refs>>
  BY <1>6 DEF CopyPtr
<1>7. ASSUME NEW a \in Live, Call(a) PROVE UNCHANGED <<slots, refs>>
  BY <1>7 DEF Call
<1>8. ASSUME Return \/ UNCHANGED vars PROVE UNCHANGED <<slots, refs>>
  BY <1>8 DEF Return, vars
<1> QED
  BY <1>1, <1>2, <1>3, <1>4, <1>5, <1>6, <1>7, <1>8 DEF Next

(* More stubs allow more addresses.                                        *)
LEMMA MoreStubs ==
  ASSUME NEW n \in Nat, NEW m \in Nat, n <= m
  PROVE  /\ [inUse : {TRUE}, fn : Fn, sig : Sig, stub : 1..n]
              \subseteq [inUse : {TRUE}, fn : Fn, sig : Sig, stub : 1..m]
         /\ Seq((1..n) \X [fn : Fn, sig : Sig]) \subseteq Seq((1..m) \X [fn : Fn, sig : Sig])
         /\ [CData -> 0..n] \subseteq [CData -> 0..m]
<1>1. 1..n \subseteq 1..m /\ 0..n \subseteq 0..m
  OBVIOUS
<1>2. (1..n) \X [fn : Fn, sig : Sig] \subseteq (1..m) \X [fn : Fn, sig : Sig]
  BY <1>1
<1>3. [CData -> 0..n] \subseteq [CData -> 0..m]
  BY <1>1
<1>4. \A A, B : A \subseteq B => Seq(A) \subseteq Seq(B)
  OBVIOUS
<1>5. Seq((1..n) \X [fn : Fn, sig : Sig]) \subseteq Seq((1..m) \X [fn : Fn, sig : Sig])
  BY <1>2, <1>4
<1>6. [inUse : {TRUE}, fn : Fn, sig : Sig, stub : 1..n]
        \subseteq [inUse : {TRUE}, fn : Fn, sig : Sig, stub : 1..m]
  <2> DEFINE U == {TRUE}
  <2>1. ASSUME NEW r \in [inUse : U, fn : Fn, sig : Sig, stub : 1..n]
        PROVE  r \in [inUse : U, fn : Fn, sig : Sig, stub : 1..m]
    <3>1. r.stub \in 1..m
      BY <1>1, <2>1
    <3> HIDE DEF U
    <3> QED
      BY <2>1, <3>1
  <2> QED
    BY <2>1
<1> QED
  BY <1>3, <1>5, <1>6

(* References stay natural numbers because they count slots.               *)
LEMMA NextRefsType ==
  ASSUME IndInv, [Next]_vars, refs' \in [Fn -> Int]
  PROVE  refs' \in [Fn -> Nat]
<1>1. \A f \in Fn : refs'[f] = Cardinality(Runs(f)')
  BY NextAnchored DEF AnchoredExactly, Runs
<1> QED
  BY <1>1, RunsFiniteNext

(* Appending a stub keeps the slab's types.                                *)
LEMMA AppendTypes ==
  ASSUME TypeOK, Fits, NEW sig \in Sig, Available(sig), NEW s \in Slot, Appends(s, sig)
  PROVE  /\ stubs' \in Seq([slot : Slot, sig : Sig]) /\ used' \in 0..SlabSize
         /\ Len(stubs') = Len(stubs) + 1 /\ Fits'
         /\ Len(stubs) \in Nat /\ Len(stubs') \in Nat
<1> USE DEF TypeOK, Appends, Available, Fits
<1>1. stubs' \in Seq([slot : Slot, sig : Sig]) /\ Len(stubs') = Len(stubs) + 1 /\ Len(stubs) \in Nat
  OBVIOUS
<1>2. StubSize[sig] \in Nat \ {0}
  BY CallbackAssumption
<1>3. used' \in 0..SlabSize /\ used' >= used + 1
  BY <1>2, CallbackAssumption
<1>4. Len(stubs') <= used'
  BY <1>1, <1>2, <1>3
<1> QED
  BY <1>1, <1>3, <1>4

(* Every step keeps the types and the room.                                *)
LEMMA NextTypeOK == IndInv /\ [Next]_vars => TypeOK' /\ Fits'
<1> SUFFICES ASSUME IndInv, [Next]_vars PROVE TypeOK' /\ Fits'
  OBVIOUS
<1> USE DEF IndInv
<1>0. Len(stubs) \in Nat
  BY DEF TypeOK
<1>1. ASSUME NEW d \in CData, NEW fn \in Fn, NEW sig \in Sig, Cast(d, fn, sig)
      PROVE  TypeOK' /\ Fits'
  <2>1. PICK s \in FirstFree :
          /\ Appends(s, sig)
          /\ slots' = [slots EXCEPT ![s] = [inUse |-> TRUE, fn |-> fn, sig |-> sig, stub |-> Len(stubs')]]
    BY <1>1 DEF Cast
  <2>2. s \in Slot
    BY DEF FirstFree, Free
  <2>3. /\ stubs' \in Seq([slot : Slot, sig : Sig]) /\ used' \in 0..SlabSize
        /\ Len(stubs') = Len(stubs) + 1 /\ Len(stubs') \in Nat /\ Fits'
    BY <1>1, <2>1, <2>2, AppendTypes DEF Cast
  <2>4. slots' \in [Slot -> {NoSlot} \cup
                            [inUse : {TRUE}, fn : Fn, sig : Sig, stub : 1..Len(stubs')]]
    <3>1. [inUse |-> TRUE, fn |-> fn, sig |-> sig, stub |-> Len(stubs')]
            \in [inUse : {TRUE}, fn : Fn, sig : Sig, stub : 1..Len(stubs')]
      BY <1>0, <2>3
    <3>2. \A t \in Slot : slots[t] \in {NoSlot} \cup [inUse : {TRUE}, fn : Fn, sig : Sig, stub : 1..Len(stubs')]
      <4>1. [inUse : {TRUE}, fn : Fn, sig : Sig, stub : 1..Len(stubs)]
              \subseteq [inUse : {TRUE}, fn : Fn, sig : Sig, stub : 1..Len(stubs')]
        <5>1. Len(stubs) <= Len(stubs')
          BY <1>0, <2>3
        <5> QED
          BY ONLY <1>0, <2>3, <5>1, MoreStubs
      <4> HIDE DEF NoSlot
      <4> QED
        BY <4>1 DEF TypeOK
    <3> QED
      BY <2>1, <3>1, <3>2 DEF TypeOK
  <2>5. ptr' \in [CData -> 0..Len(stubs')] /\ calls' \in Seq((1..Len(stubs')) \X [fn : Fn, sig : Sig])
    BY <1>0, <1>1, <2>3, MoreStubs DEF TypeOK, Cast
  <2>6. refs' \in [Fn -> Nat] /\ executable' \in BOOLEAN /\ Len(calls') <= MaxDepth
    BY <1>1 DEF TypeOK, Cast
  <2>7. Slot' = Slot
    BY DEF Slot
  <2> QED
    BY ONLY <2>3, <2>4, <2>5, <2>6, <2>7 DEF TypeOK, NoSlot
<1>2. ASSUME NEW sig \in Sig, CastRefused(sig) PROVE TypeOK' /\ Fits'
  <2>1. PICK s \in FirstFree : Appends(s, sig)
    BY <1>2 DEF CastRefused
  <2>2. s \in Slot
    BY DEF FirstFree, Free
  <2>3. /\ stubs' \in Seq([slot : Slot, sig : Sig]) /\ used' \in 0..SlabSize
        /\ Len(stubs') = Len(stubs) + 1 /\ Len(stubs') \in Nat /\ Fits'
    BY <1>2, <2>1, <2>2, AppendTypes DEF CastRefused
  <2>4. slots' \in [Slot -> {NoSlot} \cup
                            [inUse : {TRUE}, fn : Fn, sig : Sig, stub : 1..Len(stubs')]]
    <3>1. \A t \in Slot : slots[t] \in {NoSlot} \cup [inUse : {TRUE}, fn : Fn, sig : Sig, stub : 1..Len(stubs')]
      <4>1. [inUse : {TRUE}, fn : Fn, sig : Sig, stub : 1..Len(stubs)]
              \subseteq [inUse : {TRUE}, fn : Fn, sig : Sig, stub : 1..Len(stubs')]
        <5>1. Len(stubs) <= Len(stubs')
          BY <1>0, <2>3
        <5> QED
          BY ONLY <1>0, <2>3, <5>1, MoreStubs
      <4> HIDE DEF NoSlot
      <4> QED
        BY <4>1 DEF TypeOK
    <3> QED
      BY <1>2, <3>1 DEF TypeOK, CastRefused
  <2>5. ptr' \in [CData -> 0..Len(stubs')] /\ calls' \in Seq((1..Len(stubs')) \X [fn : Fn, sig : Sig])
    BY <1>0, <1>2, <2>3, MoreStubs DEF TypeOK, CastRefused
  <2>6. refs' \in [Fn -> Nat] /\ executable' \in BOOLEAN /\ Len(calls') <= MaxDepth
    BY <1>2 DEF TypeOK, CastRefused
  <2>7. Slot' = Slot
    BY DEF Slot
  <2> QED
    BY ONLY <2>3, <2>4, <2>5, <2>6, <2>7 DEF TypeOK, NoSlot
<1>3. ASSUME NEW d \in CData, FreeCallback(d) PROVE TypeOK' /\ Fits'
  <2>1. PICK s \in InUse :
          /\ refs' = [refs EXCEPT ![slots[s].fn] = @ - 1]
          /\ slots' = [slots EXCEPT ![s] = NoSlot]
    BY <1>3, FreeStep
  <2>2. refs' \in [Fn -> Nat]
    <3>1. slots[s].fn \in Fn /\ refs \in [Fn -> Nat]
      BY SlotTypes DEF TypeOK
    <3>2. refs[slots[s].fn] - 1 \in Int /\ refs \in [Fn -> Int]
      BY <3>1
    <3>3. refs' \in [Fn -> Int]
      BY <2>1, <3>2
    <3> QED
      BY <3>3, NextRefsType
  <2>3. slots' \in [Slot -> {NoSlot} \cup
                            [inUse : {TRUE}, fn : Fn, sig : Sig, stub : 1..Len(stubs)]]
    <3> HIDE DEF NoSlot
    <3> QED BY <2>1 DEF TypeOK
  <2>4. ptr' \in [CData -> 0..Len(stubs)]
    BY <1>0, <1>3 DEF FreeCallback, TypeOK
  <2>5. UNCHANGED <<stubs, used, executable, calls>>
    BY <1>3 DEF FreeCallback
  <2>6. Slot' = Slot
    BY DEF Slot
  <2> QED
    BY <2>2, <2>3, <2>4, <2>5, <2>6 DEF TypeOK, Fits
<1>4. ASSUME NEW d \in CData, NEW fn \in Fn, SetCallback(d, fn) PROVE TypeOK' /\ Fits'
  <2>1. PICK s \in InUse :
          /\ refs' = [f \in Fn |-> refs[f] + (IF f = fn THEN 1 ELSE 0)
                                           - (IF f = slots[s].fn THEN 1 ELSE 0)]
          /\ slots' = [slots EXCEPT ![s].fn = fn]
    BY <1>4, SetStep
  <2>2. refs' \in [Fn -> Nat]
    <3>1. refs' \in [Fn -> Int]
      BY <2>1 DEF TypeOK
    <3> QED
      BY <3>1, NextRefsType
  <2>3. slots' \in [Slot -> {NoSlot} \cup
                            [inUse : {TRUE}, fn : Fn, sig : Sig, stub : 1..Len(stubs)]]
    <3>1. slots[s] \in [inUse : {TRUE}, fn : Fn, sig : Sig, stub : 1..Len(stubs)]
      BY SlotTypes
    <3>2. [slots[s] EXCEPT !.fn = fn] \in [inUse : {TRUE}, fn : Fn, sig : Sig, stub : 1..Len(stubs)]
      BY <3>1
    <3> QED
      BY <2>1, <3>2 DEF TypeOK
  <2>5. UNCHANGED <<stubs, used, executable, ptr, calls>>
    BY <1>4 DEF SetCallback
  <2>6. Slot' = Slot
    BY DEF Slot
  <2> QED
    BY <2>2, <2>3, <2>5, <2>6 DEF TypeOK, Fits
<1>5. ASSUME NEW d \in CData, NEW e \in CData, CopyPtr(d, e) PROVE TypeOK' /\ Fits'
  <2>1. ptr' \in [CData -> 0..Len(stubs)]
    BY <1>5 DEF CopyPtr, TypeOK
  <2> QED
    BY <1>5, <2>1 DEF CopyPtr, TypeOK, Fits, Slot, NoSlot
<1>6. ASSUME NEW a \in Live, Call(a) PROVE TypeOK' /\ Fits'
  <2>1. PICK s \in InUse : slots[s].stub = a
    BY DEF Live
  <2>2. a \in 1..Len(stubs) /\ stubs[a].slot = s
    BY <2>1, SlotTypes DEF StubOfItsSlot
  <2>3. calls' = Append(calls, <<a, [fn |-> slots[s].fn, sig |-> slots[s].sig]>>)
    BY <1>6, <2>2 DEF Call
  <2>4. <<a, [fn |-> slots[s].fn, sig |-> slots[s].sig]>> \in (1..Len(stubs)) \X [fn : Fn, sig : Sig]
    BY <2>2, SlotTypes
  <2>5. calls' \in Seq((1..Len(stubs)) \X [fn : Fn, sig : Sig]) /\ Len(calls') = Len(calls) + 1
    BY <2>3, <2>4 DEF TypeOK
  <2>6. Len(calls') <= MaxDepth
    BY <1>6, <2>5, CallbackAssumption DEF Call, TypeOK
  <2> QED
    BY <1>6, <2>5, <2>6 DEF Call, TypeOK, Fits, Slot, NoSlot
<1>7. CASE Return
  <2>1. calls' \in Seq((1..Len(stubs)) \X [fn : Fn, sig : Sig]) /\ Len(calls') <= MaxDepth
    <3> DEFINE R == (1..Len(stubs)) \X [fn : Fn, sig : Sig]
    <3>1. calls \in Seq(R) /\ calls # <<>> /\ Len(calls) <= MaxDepth
      BY <1>7 DEF Return, TypeOK
    <3> HIDE DEF R
    <3>2. SubSeq(calls, 1, Len(calls) - 1) \in Seq(R) /\ Len(SubSeq(calls, 1, Len(calls) - 1)) = Len(calls) - 1
      BY <3>1
    <3>3. Len(calls) \in Nat
      BY <3>1
    <3> QED
      BY <1>7, <3>1, <3>2, <3>3, CallbackAssumption DEF Return, R
  <2> QED
    BY <1>7, <2>1 DEF Return, TypeOK, Fits, Slot, NoSlot
<1>8. CASE UNCHANGED vars
  BY <1>8 DEF vars, TypeOK, Fits, Slot, NoSlot
<1> QED
  BY <1>1, <1>2, <1>3, <1>4, <1>5, <1>6, <1>7, <1>8 DEF Next
(* A stub is written once, and a slot is given a new one each time.        *)
LEMMA NextStubOfItsSlot == IndInv /\ [Next]_vars => StubOfItsSlot'
<1> SUFFICES ASSUME IndInv, [Next]_vars, NEW t \in InUse' PROVE stubs'[slots'[t].stub].slot = t
  BY DEF StubOfItsSlot
<1> USE DEF IndInv
<1>0. ASSUME NEW u \in InUse
      PROVE  stubs[slots[u].stub].slot = u /\ slots[u].stub \in 1..Len(stubs)
  BY SlotTypes DEF StubOfItsSlot
<1>1. ASSUME NEW d \in CData, NEW fn \in Fn, NEW sig \in Sig, Cast(d, fn, sig)
      PROVE  stubs'[slots'[t].stub].slot = t
  <2>1. PICK s \in Slot \ InUse :
          /\ stubs' = Append(stubs, [slot |-> s, sig |-> sig])
          /\ slots' = [slots EXCEPT ![s] =
                         [inUse |-> TRUE, fn |-> fn, sig |-> sig, stub |-> Len(stubs) + 1]]
          /\ InUse' = InUse \cup {s}
    BY <1>1, CastStep
  <2>2. CASE t = s
    <3>1. slots'[t].stub = Len(stubs) + 1
      BY <2>1, <2>2 DEF TypeOK
    <3>2. stubs'[Len(stubs) + 1].slot = s
      BY <2>1 DEF TypeOK
    <3> QED
      BY <2>2, <3>1, <3>2
  <2>3. CASE t \in InUse
    <3>1. slots'[t] = slots[t]
      BY <2>1, <2>3 DEF TypeOK, InUse
    <3>2. \A i \in 1..Len(stubs) : stubs'[i] = stubs[i]
      BY <2>1 DEF TypeOK
    <3> QED
      BY <1>0, <2>3, <3>1, <3>2
  <2> QED
    BY <2>1, <2>2, <2>3
<1>2. ASSUME NEW sig \in Sig, CastRefused(sig)
      PROVE  stubs'[slots'[t].stub].slot = t
  <2>1. PICK s \in FirstFree : Appends(s, sig)
    BY <1>2 DEF CastRefused
  <2>2. \A i \in 1..Len(stubs) : stubs'[i] = stubs[i]
    BY <2>1 DEF TypeOK, Appends
  <2>3. t \in InUse /\ slots' = slots
    BY <1>2 DEF CastRefused, InUse, Slot
  <2> QED
    BY <1>0, <2>2, <2>3
<1>3. ASSUME NEW d \in CData, FreeCallback(d)
      PROVE  stubs'[slots'[t].stub].slot = t
  <2>1. PICK s \in InUse : slots' = [slots EXCEPT ![s] = NoSlot] /\ InUse' = InUse \ {s}
    BY <1>3, FreeStep
  <2>2. t \in InUse /\ slots'[t] = slots[t]
    BY <2>1 DEF InUse, TypeOK
  <2>3. stubs' = stubs
    BY <1>3 DEF FreeCallback
  <2> QED
    BY <1>0, <2>2, <2>3
<1>4. ASSUME NEW d \in CData, NEW fn \in Fn, SetCallback(d, fn)
      PROVE  stubs'[slots'[t].stub].slot = t
  <2>1. InUse' = InUse /\ \A u \in InUse : slots'[u].stub = slots[u].stub
    BY <1>4, SetStep
  <2>2. stubs' = stubs
    BY <1>4 DEF SetCallback
  <2> QED
    BY <1>0, <2>1, <2>2
<1>5. ASSUME UNCHANGED <<slots, stubs>> PROVE stubs'[slots'[t].stub].slot = t
  <2>1. t \in InUse
    BY <1>5 DEF InUse, Slot
  <2> QED
    BY <1>0, <1>5, <2>1
<1>6. ASSUME NEW d \in CData, NEW e \in CData, CopyPtr(d, e) PROVE UNCHANGED <<slots, stubs>>
  BY <1>6 DEF CopyPtr
<1>7. ASSUME NEW a \in Live, Call(a) PROVE UNCHANGED <<slots, stubs>>
  BY <1>7 DEF Call
<1>8. ASSUME Return \/ UNCHANGED vars PROVE UNCHANGED <<slots, stubs>>
  BY <1>8 DEF Return, vars
<1> QED
  BY <1>1, <1>2, <1>3, <1>4, <1>5, <1>6, <1>7, <1>8 DEF Next

(* The invariant is inductive.                                             *)
LEMMA NextIndInv == IndInv /\ [Next]_vars => IndInv'
  BY NextTypeOK, NextAnchored, NextStubOfItsSlot DEF IndInv

(* The invariant holds in every reachable state.                           *)
LEMMA SpecIndInv == Spec => []IndInv
  BY InitIndInv, NextIndInv, PTL DEF Spec

(* Every variable keeps its type; in particular the slab never overflows.  *)
THEOREM SpecTypeOK == Spec => []TypeOK
<1>1. IndInv => TypeOK
  BY DEF IndInv
<1> QED
  BY SpecIndInv, <1>1, PTL

(* The registry holds each function once per slot that may run it.         *)
THEOREM SpecAnchoredExactly == Spec => []AnchoredExactly
<1>1. IndInv => AnchoredExactly
  BY DEF IndInv
<1> QED
  BY SpecIndInv, <1>1, PTL

-----------------------------------------------------------------------------
(* The refinement                                                          *)

(* A slot in use is what stands behind its address.                        *)
SlotBehind ==
  \A s \in InUse : /\ slots[s].stub \in Live
                   /\ Behind[slots[s].stub] = [fn |-> slots[s].fn, sig |-> slots[s].sig]

(* Behind gives for each live address the callback of its only slot.       *)
LEMMA BehindSlot == IndInv => SlotBehind
<1> SUFFICES ASSUME IndInv, NEW s \in InUse
             PROVE  /\ slots[s].stub \in Live
                    /\ Behind[slots[s].stub] = [fn |-> slots[s].fn, sig |-> slots[s].sig]
  BY DEF SlotBehind
<1>1. Owner(slots[s].stub) = {s}
  BY OwnerUnique DEF IndInv
<1>2. slots[s].stub \in Live
  BY DEF Live
<1>3. (CHOOSE o \in Owner(slots[s].stub) : TRUE) = s
  BY <1>1
<1> QED
  BY <1>2, <1>3 DEF Behind

(* The same after the step.                                                *)
LEMMA BehindSlotNext == IndInv' => SlotBehind'
  BY BehindSlot, PTL

(* No address is live at first.                                            *)
LEMMA InitAbs == Init => Abs!Init
<1> SUFFICES ASSUME Init PROVE Abs!Init
  OBVIOUS
<1>1. Live = {}
  BY DEF Init, Live, InUse, NoSlot
<1>2. Behind = <<>>
  BY <1>1 DEF Behind
<1> QED
  BY <1>2 DEF Init, Abs!Init
(* Addresses are given out in the slab.                                    *)
InSlab == DOMAIN stubs = 1..Len(stubs) /\ Len(stubs) \in Nat /\ Len(stubs) <= SlabSize

(* A stub's address lies in the slab: every stub takes room.               *)
LEMMA AddressesInSlab == IndInv => InSlab
  BY CallbackAssumption DEF IndInv, TypeOK, Fits, InSlab

(* The same after the step.                                                *)
LEMMA AddressesInSlabNext == IndInv' => InSlab'
  BY AddressesInSlab, PTL

(* So are the addresses of the slots.                                      *)
LEMMA SlotInSlab ==
  ASSUME IndInv, NEW s \in InUse
  PROVE  slots[s].stub \in 1..SlabSize /\ slots[s].stub \in Live
<1>1. slots[s].stub \in 1..Len(stubs)
  BY SlotTypes DEF IndInv
<1>2. Len(stubs) \in Nat /\ Len(stubs) <= SlabSize
  BY AddressesInSlab DEF InSlab
<1>3. slots[s].stub \in 1..SlabSize
  BY ONLY <1>1, <1>2, CallbackAssumption DEF CallbackAssumption
<1> QED
  BY <1>3 DEF Live

(* ffi.cast gives out the next address.                                    *)
LEMMA CastAbs ==
  ASSUME IndInv, IndInv', NEW d \in CData, NEW fn \in Fn, NEW sig \in Sig, Cast(d, fn, sig)
  PROVE  Abs!Next
<1> DEFINE a == Len(stubs) + 1
<1>1. PICK s \in Slot \ InUse :
        /\ stubs' = Append(stubs, [slot |-> s, sig |-> sig])
        /\ Len(stubs') = Len(stubs) + 1
        /\ slots' = [slots EXCEPT ![s] =
                       [inUse |-> TRUE, fn |-> fn, sig |-> sig, stub |-> Len(stubs) + 1]]
        /\ InUse' = InUse \cup {s}
  BY CastStep DEF IndInv
<1>2. slots'[s] = [inUse |-> TRUE, fn |-> fn, sig |-> sig, stub |-> a]
  BY <1>1 DEF IndInv, TypeOK
<1>3. \A t \in InUse : slots'[t] = slots[t]
  BY <1>1 DEF IndInv, TypeOK, InUse
<1>4. Len(stubs) \in Nat /\ DOMAIN stubs = 1..Len(stubs) /\ DOMAIN stubs' = 1..Len(stubs')
      /\ Len(stubs') <= SlabSize
  BY AddressesInSlab, AddressesInSlabNext DEF InSlab
<1>5. a \in 1..SlabSize /\ a \notin DOMAIN stubs /\ DOMAIN stubs' = DOMAIN stubs \cup {a}
  BY <1>1, <1>4, CallbackAssumption
<1>6. Live' = Live \cup {a}
  <2>1. \A t \in InUse : slots'[t].stub = slots[t].stub
    BY <1>3
  <2>2. slots'[s].stub = a
    BY <1>2
  <2> HIDE DEF a
  <2> QED
    BY <1>1, <2>1, <2>2 DEF Live
<1>7. a \notin Live
  BY <1>5, <1>4, SlotTypes DEF Live, IndInv
<1>8. Behind'[a] = [fn |-> fn, sig |-> sig]
  <2>1. s \in InUse'
    BY <1>1
  <2>2. Behind'[slots'[s].stub] = [fn |-> slots'[s].fn, sig |-> slots'[s].sig]
    BY <2>1, BehindSlotNext DEF SlotBehind
  <2> QED
    BY <1>2, <2>2
<1>9. ASSUME NEW b \in Live PROVE Behind'[b] = Behind[b]
  <2>1. PICK t \in InUse : slots[t].stub = b
    BY DEF Live
  <2>2. t \in InUse'
    BY <1>1
  <2> QED
    <3>1. Behind[b] = [fn |-> slots[t].fn, sig |-> slots[t].sig]
      BY <2>1, BehindSlot DEF SlotBehind
    <3>2. Behind'[slots'[t].stub] = [fn |-> slots'[t].fn, sig |-> slots'[t].sig]
      BY <2>2, BehindSlotNext DEF SlotBehind
    <3> QED
      BY <1>3, <2>1, <3>1, <3>2
<1>10. Behind' = [b \in Live \cup {a} |-> IF b = a THEN [fn |-> fn, sig |-> sig] ELSE Behind[b]]
  <2>1. Behind' = [b \in Live' |-> Behind'[b]]
    BY DEF Behind
  <2> HIDE DEF a
  <2> QED
    BY <1>6, <1>7, <1>8, <1>9, <2>1
<1>11. DOMAIN Behind = Live
  BY DEF Behind
<1>12. Abs!Cast(a, fn, sig)
  BY <1>5, <1>10, <1>11 DEF Abs!Cast, Cast
<1> QED
  BY <1>5, <1>12 DEF Abs!Next

(* A refused ffi.cast loses an address.                                    *)
LEMMA CastRefusedAbs ==
  ASSUME IndInv, IndInv', NEW sig \in Sig, CastRefused(sig)
  PROVE  Abs!Next
<1> DEFINE a == Len(stubs) + 1
<1>1. PICK s \in FirstFree : Appends(s, sig)
  BY DEF CastRefused
<1>2. Len(stubs') = Len(stubs) + 1
  BY <1>1 DEF Appends, IndInv, TypeOK
<1>3. Len(stubs) \in Nat /\ DOMAIN stubs = 1..Len(stubs) /\ DOMAIN stubs' = 1..Len(stubs')
      /\ Len(stubs') <= SlabSize
  BY AddressesInSlab, AddressesInSlabNext DEF InSlab
<1>4. a \in 1..SlabSize /\ a \notin DOMAIN stubs /\ DOMAIN stubs' = DOMAIN stubs \cup {a}
  BY <1>2, <1>3, CallbackAssumption
<1>5. Behind' = Behind
  BY DEF CastRefused, Behind, Live, Owner, InUse, Slot
<1>6. Abs!Lose(a)
  BY <1>4, <1>5 DEF Abs!Lose, CastRefused
<1> QED
  BY <1>4, <1>6 DEF Abs!Next

(* A free ends the life of the slot's address.                             *)
LEMMA FreeAbs ==
  ASSUME IndInv, IndInv', NEW d \in CData, FreeCallback(d)
  PROVE  Abs!Next
<1> DEFINE a == ptr[d]
<1>1. PICK s \in InUse :
        /\ slots[s].stub = a
        /\ slots' = [slots EXCEPT ![s] = NoSlot]
        /\ InUse' = InUse \ {s}
  BY FreeStep DEF IndInv
<1>2. \A t \in InUse' : t \in InUse /\ slots'[t] = slots[t]
  BY <1>1 DEF InUse, IndInv, TypeOK
<1>3. a \in Live /\ a \in 1..SlabSize
  BY <1>1, SlotInSlab
<1>4. \A t \in InUse' : slots[t].stub # a
  BY <1>1, <1>2 DEF IndInv, StubOfItsSlot
<1>5. Live' = Live \ {a}
  <2>1. Live' = {slots[t].stub : t \in InUse'}
    BY <1>2 DEF Live
  <2> HIDE DEF a
  <2> QED
    BY <1>1, <1>4, <2>1 DEF Live
<1>6. ASSUME NEW b \in Live' PROVE Behind'[b] = Behind[b]
  <2>1. PICK t \in InUse' : slots'[t].stub = b
    BY DEF Live
  <2> QED
    <3>1. Behind[slots[t].stub] = [fn |-> slots[t].fn, sig |-> slots[t].sig]
      BY <1>2, BehindSlot DEF SlotBehind
    <3>2. Behind'[slots'[t].stub] = [fn |-> slots'[t].fn, sig |-> slots'[t].sig]
      BY BehindSlotNext DEF SlotBehind
    <3> QED
      BY <1>2, <2>1, <3>1, <3>2
<1>7. Behind' = [b \in Live \ {a} |-> Behind[b]]
  <2>1. Behind' = [b \in Live' |-> Behind'[b]]
    BY DEF Behind
  <2> QED
    BY <1>5, <1>6, <2>1
<1>8. DOMAIN Behind = Live
  BY DEF Behind
<1>9. Abs!Free(a)
  BY <1>3, <1>7, <1>8 DEF Abs!Free, Abs!Restrict, FreeCallback
<1> QED
  BY <1>3, <1>9 DEF Abs!Next

(* cb:set replaces the function behind the slot's address.                 *)
LEMMA SetAbs ==
  ASSUME IndInv, IndInv', NEW d \in CData, NEW fn \in Fn, SetCallback(d, fn)
  PROVE  Abs!Next
<1> DEFINE a == ptr[d]
<1>1. PICK s \in InUse :
        /\ slots[s].stub = a
        /\ \A t \in InUse : slots'[t].inUse /\ slots'[t].stub = slots[t].stub
                            /\ slots'[t].sig = slots[t].sig
                            /\ slots'[t].fn = (IF t = s THEN fn ELSE slots[t].fn)
        /\ InUse' = InUse
  BY SetStep DEF IndInv
<1>3. a \in Live /\ a \in 1..SlabSize
  BY <1>1, SlotInSlab
<1>4. Live' = Live
  BY <1>1 DEF Live
<1>5. Behind'[a] = [fn |-> fn, sig |-> Behind[a].sig]
  <2>1. Behind[slots[s].stub] = [fn |-> slots[s].fn, sig |-> slots[s].sig]
    BY BehindSlot DEF SlotBehind
  <2>2. Behind'[slots'[s].stub] = [fn |-> slots'[s].fn, sig |-> slots'[s].sig]
    BY <1>1, BehindSlotNext DEF SlotBehind
  <2> QED
    BY <1>1, <2>1, <2>2
<1>6. ASSUME NEW b \in Live \ {a} PROVE Behind'[b] = Behind[b]
  <2>1. PICK t \in InUse : slots[t].stub = b
    BY DEF Live
  <2>2. t # s
    BY <1>1, <2>1
  <2> QED
    <3>1. Behind[slots[t].stub] = [fn |-> slots[t].fn, sig |-> slots[t].sig]
      BY BehindSlot DEF SlotBehind
    <3>2. Behind'[slots'[t].stub] = [fn |-> slots'[t].fn, sig |-> slots'[t].sig]
      BY <1>1, BehindSlotNext DEF SlotBehind
    <3> QED
      BY <1>1, <2>1, <2>2, <3>1, <3>2
<1>7. Behind' = [Behind EXCEPT ![a] = [fn |-> fn, sig |-> @.sig]]
  <2>1. Behind' = [b \in Live |-> Behind'[b]] /\ Behind = [b \in Live |-> Behind[b]]
    BY <1>4 DEF Behind
  <2> QED
    BY <1>3, <1>5, <1>6, <2>1
<1>8. DOMAIN Behind = Live
  BY DEF Behind
<1>9. Abs!Set(a, fn)
  BY <1>3, <1>7, <1>8 DEF Abs!Set, SetCallback
<1> QED
  BY <1>3, <1>9 DEF Abs!Next

(* A call through an address runs what is behind it.                       *)
LEMMA CallAbs ==
  ASSUME IndInv, IndInv', NEW a \in Live, Call(a)
  PROVE  Abs!Next
<1>1. PICK s \in InUse : slots[s].stub = a
  BY DEF Live
<1>2. stubs[a].slot = s /\ a \in 1..SlabSize
  BY <1>1, SlotInSlab DEF IndInv, StubOfItsSlot
<1>3. calls' = Append(calls, <<a, Behind[a]>>)
  BY <1>1, <1>2, BehindSlot DEF SlotBehind, Call
<1>4. Behind' = Behind
  BY DEF Call, Behind, Live, Owner, InUse, Slot
<1>5. DOMAIN Behind = Live
  BY DEF Behind
<1>6. Abs!Call(a)
  BY <1>3, <1>4, <1>5 DEF Abs!Call, Call
<1> QED
  BY <1>2, <1>6 DEF Abs!Next

(* Every step is one of an address table's, or changes nothing it has.     *)
LEMMA StepAbs == IndInv /\ IndInv' /\ [Next]_vars => [Abs!Next]_<<Behind, DOMAIN stubs, calls>>
<1> SUFFICES ASSUME IndInv, IndInv', [Next]_vars PROVE [Abs!Next]_<<Behind, DOMAIN stubs, calls>>
  OBVIOUS
<1>1. CASE Return
  <2>1. Behind' = Behind
    BY <1>1 DEF Return, Behind, Live, Owner, InUse, Slot
  <2>2. Abs!Return
    BY <1>1, <2>1 DEF Return, Abs!Return
  <2> QED
    BY <2>2 DEF Abs!Next
<1>2. ASSUME UNCHANGED <<slots, stubs, calls>> PROVE UNCHANGED <<Behind, DOMAIN stubs, calls>>
  BY <1>2 DEF Behind, Live, Owner, InUse, Slot
<1>3. ASSUME NEW d \in CData, NEW e \in CData, CopyPtr(d, e) PROVE UNCHANGED <<slots, stubs, calls>>
  BY <1>3 DEF CopyPtr
<1>4. CASE UNCHANGED vars
  BY <1>2, <1>4 DEF vars
<1> QED
  BY <1>1, <1>2, <1>3, <1>4, CastAbs, CastRefusedAbs, FreeAbs, SetAbs, CallAbs DEF Next

(* Callbacks are what ffi_callback.h promises: an address stands for one   *)
(* function and signature from its cast to its free, is never given out    *)
(* again, and a call runs the function last set for it.                    *)
THEOREM SpecImplementsAbs == Spec => ImplementsAbs
  BY InitAbs, StepAbs, SpecIndInv, PTL DEF Spec, ImplementsAbs, Abs!Spec
=============================================================================
