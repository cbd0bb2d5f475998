---------------------------- MODULE CallbackAbs -----------------------------
(***************************************************************************)
(* What ffi/ffi_callback.h promises: an address stands for one Lua         *)
(* function and one signature from ffi.cast until it is freed, cb:set      *)
(* changes only the function, a call of the address runs that function     *)
(* with that signature, and an address is never given out again.           *)
(***************************************************************************)
EXTENDS Sequences, Naturals, Functions

CONSTANTS Fn, Sig, Address

VARIABLES live,   \* the callback behind each live address
          given,  \* addresses given out so far
          calls   \* address and callback of the calls that have not returned

Init == live = <<>> /\ given = {} /\ calls = <<>>

Cast(a, fn, sig) ==
  /\ a \notin given
  /\ given' = given \cup {a}
  /\ live' = [b \in DOMAIN live \cup {a} |->
                IF b = a THEN [fn |-> fn, sig |-> sig] ELSE live[b]]
  /\ UNCHANGED calls

Free(a) ==
  /\ a \in DOMAIN live
  /\ live' = Restrict(live, DOMAIN live \ {a})
  /\ UNCHANGED <<given, calls>>

Set(a, fn) ==
  /\ a \in DOMAIN live
  /\ live' = [live EXCEPT ![a] = [fn |-> fn, sig |-> @.sig]]
  /\ UNCHANGED <<given, calls>>

Call(a) ==
  /\ a \in DOMAIN live
  /\ calls' = Append(calls, <<a, live[a]>>)
  /\ UNCHANGED <<live, given>>

Return ==
  /\ calls # <<>>
  /\ calls' = SubSeq(calls, 1, Len(calls) - 1)
  /\ UNCHANGED <<live, given>>

(* An address that was never anybody's is lost.                            *)
Lose(a) == a \notin given /\ given' = given \cup {a} /\ UNCHANGED <<live, calls>>

Next ==
  \/ \E a \in Address :
       \/ \E fn \in Fn : Set(a, fn) \/ \E sig \in Sig : Cast(a, fn, sig)
       \/ Free(a) \/ Call(a) \/ Lose(a)
  \/ Return

Spec == Init /\ [][Next]_<<live, given, calls>>
=============================================================================
