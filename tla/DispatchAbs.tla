---------------------------- MODULE DispatchAbs -----------------------------
(***************************************************************************)
(* What jit/dispatch.h promises of a dispatch cache: a set of registered   *)
(* functions that only grows, and lookups that answer from it.             *)
(***************************************************************************)
CONSTANT Proto

VARIABLES known,  \* the Protos registered so far
          answer  \* the last lookup and whether it found a native entry

Init == known = {} /\ answer = <<>>

Register(p) == known' = known \cup {p} /\ UNCHANGED answer

Lookup(p) == answer' = <<p, p \in known>> /\ UNCHANGED known

Next == \E p \in Proto : Register(p) \/ Lookup(p)

Spec == Init /\ [][Next]_<<known, answer>>
=============================================================================
