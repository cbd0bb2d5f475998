---------------------------- MODULE FfiCallback -----------------------------
(***************************************************************************)
(* FFI callbacks (ffi/ffi_callback.c): a Lua function as a C function      *)
(* pointer.  A fixed table of slots names the function and its signature;  *)
(* a stub with its slot number baked in is appended to one slab of         *)
(* executable memory; native code calls the stub, Callback_Dispatch finds  *)
(* the slot and runs the function, which may cast, set, free and be called *)
(* in turn.  Callers stop using an address they have freed.                *)
(*                                                                         *)
(* A stub's address is its place in the slab, a signature stands for the   *)
(* size of its stub, memory is counted in 16-byte units.                   *)
(***************************************************************************)
EXTENDS Naturals, Sequences, FiniteSets

CONSTANTS Fn,            \* Lua functions
          Sig,           \* callback signatures
          StubSize,      \* [Sig -> the size of its stub]
          CData,         \* function-pointer cdata of the program
          MaxSlots,      \* FFI_CALLBACK_MAX
          SlabSize,      \* the reserved slab
          MaxDepth       \* bound: nested callbacks

ASSUME CallbackAssumption ==
  /\ StubSize \in [Sig -> Nat \ {0}]
  /\ MaxSlots \in Nat \ {0} /\ SlabSize \in Nat /\ MaxDepth \in Nat

VARIABLES slots,       \* g_Callbacks
          stubs,       \* the code in the slab: slot number and argument shape
          used,        \* g_StubSlab.Used
          executable,  \* the slab is PAGE_EXECUTE_READ
          refs,        \* registry references to each function
          ptr,         \* the Ptr of each cdata; 0 is NULL
          calls        \* activations of Callback_Dispatch, the innermost last

vars == <<slots, stubs, used, executable, refs, ptr, calls>>

Slot == 1..MaxSlots
NoSlot == [inUse |-> FALSE]
InUse == {s \in Slot : slots[s].inUse}
Free == Slot \ InUse
(* The slot a live address belongs to, as FreeCallback and SetCallback     *)
(* find it.                                                                *)
Owner(a) == {s \in InUse : slots[s].stub = a}
Live == {slots[s].stub : s \in InUse}

TypeOK ==
  /\ slots \in [Slot -> {NoSlot} \cup
                        [inUse : {TRUE}, fn : Fn, sig : Sig, stub : 1..Len(stubs)]]
  /\ stubs \in Seq([slot : Slot, sig : Sig])
  /\ used \in 0..SlabSize
  /\ executable \in BOOLEAN
  /\ refs \in [Fn -> Nat]
  /\ ptr \in [CData -> 0..Len(stubs)]
  /\ calls \in Seq((1..Len(stubs)) \X [fn : Fn, sig : Sig]) /\ Len(calls) <= MaxDepth

Init ==
  /\ slots = [s \in Slot |-> NoSlot]
  /\ stubs = <<>>
  /\ used = 0
  /\ executable = FALSE
  /\ refs = [f \in Fn |-> 0]
  /\ ptr = [d \in CData |-> 0]
  /\ calls = <<>>

-----------------------------------------------------------------------------

(* Mutants: the stub's size is not checked; the number of slots in use is  *)
(* baked into the stub.                                                    *)
AvailableUnsized(sig) == used < SlabSize
AppendsCount(s, sig) ==
  /\ stubs' = Append(stubs, [slot |-> Cardinality(InUse) + 1, sig |-> sig])
  /\ used' = used + StubSize[sig]

(* The first free slot, if there is one, and room in the slab.             *)
FirstFree == {s \in Free : \A t \in Free : s <= t}
Available(sig) == used + StubSize[sig] <= SlabSize

Appends(s, sig) ==
  /\ stubs' = Append(stubs, [slot |-> s, sig |-> sig])
  /\ used' = used + StubSize[sig]

(* ffi.cast of a Lua function: the stub is appended, the slab made         *)
(* executable (again), the function anchored, the slot filled.             *)
Cast(d, fn, sig) ==
  /\ Available(sig)
  /\ \E s \in FirstFree :
       /\ Appends(s, sig)
       /\ slots' = [slots EXCEPT ![s] =
                      [inUse |-> TRUE, fn |-> fn, sig |-> sig, stub |-> Len(stubs')]]
  /\ executable' = TRUE
  /\ refs' = [refs EXCEPT ![fn] = @ + 1]
  /\ ptr' = [ptr EXCEPT ![d] = Len(stubs')]
  /\ UNCHANGED calls

(* The protection cannot be set after the stub was written: ffi.cast       *)
(* raises, the stub's room stays taken.  The first commit leaves the slab  *)
(* as it was; a later one has already made it writable.                    *)
CastRefused(sig) ==
  /\ Available(sig)
  /\ \E s \in FirstFree : Appends(s, sig)
  /\ executable' = FALSE
  /\ UNCHANGED <<slots, refs, ptr, calls>>

(* ffi.cast of one function pointer to another type copies the address.    *)
CopyPtr(d, e) ==
  /\ ptr' = [ptr EXCEPT ![d] = ptr[e]]
  /\ UNCHANGED <<slots, stubs, used, executable, refs, calls>>

(* Mutant: the reference of a freed callback is kept.                      *)
FreeKeepsRef(d) ==
  /\ \E s \in Owner(ptr[d]) : slots' = [slots EXCEPT ![s] = NoSlot]
  /\ ptr' = [ptr EXCEPT ![d] = 0]
  /\ UNCHANGED <<stubs, used, executable, refs, calls>>

(* cb:free and ffi.callback_free: an address that is not a live callback   *)
(* raises; otherwise the slot is emptied and this cdata's pointer nulled.  *)
FreeCallback(d) ==
  /\ \E s \in Owner(ptr[d]) :
       /\ refs' = [refs EXCEPT ![slots[s].fn] = @ - 1]
       /\ slots' = [slots EXCEPT ![s] = NoSlot]
  /\ ptr' = [ptr EXCEPT ![d] = 0]
  /\ UNCHANGED <<stubs, used, executable, calls>>

(* cb:set                                                                  *)
SetCallback(d, fn) ==
  /\ \E s \in Owner(ptr[d]) :
       /\ refs' = [f \in Fn |-> refs[f] + (IF f = fn THEN 1 ELSE 0)
                                        - (IF f = slots[s].fn THEN 1 ELSE 0)]
       /\ slots' = [slots EXCEPT ![s].fn = fn]
  /\ UNCHANGED <<stubs, used, executable, ptr, calls>>

(* Native code calls the stub at a: Callback_Dispatch goes by the number   *)
(* in the stub.                                                            *)
Call(a) ==
  /\ a \in Live /\ executable
  /\ Len(calls) < MaxDepth
  /\ LET s == slots[stubs[a].slot] IN
       /\ s.inUse
       /\ calls' = Append(calls, <<a, [fn |-> s.fn, sig |-> s.sig]>>)
  /\ UNCHANGED <<slots, stubs, used, executable, refs, ptr>>

Return ==
  /\ calls # <<>>
  /\ calls' = SubSeq(calls, 1, Len(calls) - 1)
  /\ UNCHANGED <<slots, stubs, used, executable, refs, ptr>>

Next ==
  \/ \E d \in CData :
       \/ \E fn \in Fn, sig \in Sig : Cast(d, fn, sig)
       \/ \E e \in CData : CopyPtr(d, e)
       \/ FreeCallback(d)
       \/ \E fn \in Fn : SetCallback(d, fn)
  \/ \E sig \in Sig : CastRefused(sig)
  \/ \E a \in Live : Call(a)
  \/ Return

Spec == Init /\ [][Next]_vars

-----------------------------------------------------------------------------

(* The callback behind each live address.                                  *)
Behind ==
  [a \in Live |-> LET s == slots[CHOOSE o \in Owner(a) : TRUE] IN [fn |-> s.fn, sig |-> s.sig]]

(* Through any nesting of calls, frees and reuses of slots, a stub runs    *)
(* the function last set for its address, with the arguments it was cast   *)
(* with, and no address a stale copy may hold becomes somebody else's.     *)
Abs == INSTANCE CallbackAbs WITH
         Address <- 1..SlabSize,
         live  <- Behind,
         given <- DOMAIN stubs
ImplementsAbs == Abs!Spec

(* The registry holds each function once per slot that may run it: none is *)
(* collected while native code can call it, none is kept after the free.   *)
AnchoredExactly ==
  \A f \in Fn : refs[f] = Cardinality({s \in InUse : slots[s].fn = f})
=============================================================================
