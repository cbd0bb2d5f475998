------------------------- MODULE NativeCallsProofs --------------------------
(***************************************************************************)
(* Proofs about the values on the Lua stack (NativeCalls), for any         *)
(* functions and programs: every step of the helpers, the core and the     *)
(* collector leaves the registers of the frames that wait where they are,  *)
(* and hands over the results that were left, as long as the CallInfos'    *)
(* ceilings are on the stack and the top is above the registers that the   *)
(* collector may see; and, for the programs that keep clear of two paths   *)
(* of the vararg code, that they are.                                      *)
(***************************************************************************)
EXTENDS JitProofs

-----------------------------------------------------------------------------
(* A function leaves.                                                      *)

(* Results that are on the stack are moved down to where they belong.      *)
MovedTo(m, g, dst, vs, c1) ==
  /\ StackOK(g) /\ g.top = dst + Len(vs) /\ g.last = m.last /\ g.cis = Append(Front(m.cis), c1)
  /\ Agree(m, g, dst) /\ InPlace(g, dst, vs)

(* Copy, with the CallInfo and the top set behind it.                      *)
LEMMA MovedDown ==
  ASSUME NEW m, StackOK(m), NEW src, NEW vs, IsSeq(vs), InPlace(m, src, vs),
         NEW dst \in Nat, dst + Len(vs) <= m.last + Extra, NEW c1
  PROVE  MovedTo(m, Topped(SetCI(Copy(m, src, Len(vs), dst), c1), dst + Len(vs)), dst, vs, c1)
<1> DEFINE p == Put(m, dst, vs)
           s == SetCI(p, c1)
           t == dst + Len(vs)
           g == Topped(s, t)
<1>1. Copy(m, src, Len(vs), dst) = p
  BY ReadInPlace DEF Copy
<1>2. StackOK(p) /\ p.last = m.last /\ p.cis = m.cis /\ InPlace(p, dst, vs) /\ Agree(m, p, dst)
  BY PutDoes
<1>3. Len(vs) \in Nat /\ t \in Nat
  BY SeqFacts
<1> HIDE DEF p
<1>4. SameSlots(p, s) /\ s.cis = Append(Front(p.cis), c1)
  BY <1>2, SetCIDoes
<1>5. StackOK(s) /\ s.last = p.last
  BY <1>4 DEF SameSlots
<1> HIDE DEF s
<1>5a. t = dst + Len(vs)
  OBVIOUS
<1> HIDE DEF t
<1>6. SameSlots(s, g) /\ g.top = t /\ g.cis = s.cis
  BY <1>3, <1>5, ToppedDoes
<1>7. StackOK(g) /\ g.last = s.last
  BY <1>6 DEF SameSlots
<1> HIDE DEF g
<1>8. InPlace(s, dst, vs) /\ Agree(p, s, dst)
  BY <1>2, <1>4, SlotsKept
<1>9. InPlace(g, dst, vs) /\ Agree(s, g, dst)
  BY <1>5, <1>6, <1>8, SlotsKept
<1>10. Agree(m, g, dst)
  <2>1. dst \in Int /\ Agree(m, s, dst)
    BY <1>2, <1>8, AgreeSteps
  <2> QED BY <2>1, <1>9, AgreeSteps
<1>11. MovedTo(m, g, dst, vs, c1)
  BY <1>2, <1>4, <1>5, <1>5a, <1>6, <1>7, <1>9, <1>10 DEF MovedTo
<1> QED BY <1>1, <1>11, <1>5a DEF g, s, t

(* The frame that has left vs.                                             *)
Leaving(f, f1, vs) ==
  /\ DOMAIN f1 = {"fn", "regs", "extra", "open", "ready", "closed", "ret", "want"}
  /\ f1.fn = f.fn /\ f1.regs = vs /\ f1.extra = <<>> /\ f1.ret = TRUE /\ f1.open = f.open
  /\ f1.ready = f.ready /\ f1.closed = f.closed

(* A vararg function is moved back to where it was called.                 *)
LEMMA LeavingFrame ==
  ASSUME NEW c, NEW f, Shape(c, f), f.ready, NEW vs, IsSeq(vs), NEW f1, Leaving(f, f1, vs), NEW g
  PROVE  /\ FrameOK(g, [c EXCEPT !.func = Low(c, f)], f1)
         /\ Low([c EXCEPT !.func = Low(c, f)], f1) = Low(c, f)
         /\ [c EXCEPT !.func = Low(c, f)].func = Low(c, f) /\ [c EXCEPT !.func = Low(c, f)].n = c.n
<1> DEFINE low == Low(c, f)
           d == [c EXCEPT !.func = low]
<1>1. low \in Nat /\ low <= c.func /\ c.func \in Nat /\ c.top \in Nat /\ InfoOK(c) /\ f.fn \in DOMAIN FnInfo
      /\ FnInfo[f.fn].size \in Nat
  BY ShapeFacts DEF Shape
<1> HIDE DEF low
<1>2. d.func = low /\ d.n = c.n /\ d.top = c.top /\ InfoOK(d)
  BY <1>1 DEF InfoOK
<1>3. ~Spread(f1) /\ Low(d, f1) = low
  BY <1>2 DEF Low, Spread, Leaving
<1>4. IsLua(f1.fn) => low + 1 + FnInfo[f1.fn].size <= d.top
  <2> SUFFICES ASSUME IsLua(f1.fn) PROVE low + 1 + FnInfo[f1.fn].size <= d.top
    OBVIOUS
  <2>1. IsLua(f.fn) /\ c.func + 1 + FnInfo[f.fn].size <= c.top /\ f1.fn = f.fn
    BY DEF Shape, Leaving
  <2> QED BY <2>1, <1>1, <1>2
<1>5. /\ DOMAIN f1 = {"fn", "regs", "extra", "open", "ready", "closed", "ret", "want"}
      /\ f1.fn \in DOMAIN FnInfo /\ IsSeq(f1.regs) /\ f1.extra = <<>> /\ f1.ret = TRUE
      /\ f1.open \in Int /\ f1.open >= -1 /\ f1.ready = TRUE /\ f1.closed \in BOOLEAN /\ f1.ready \in BOOLEAN
  BY <1>1, ShapeFacts DEF Leaving, Shape
<1>5a. IsSeq(f1.extra)
  BY <1>5, Singles
<1>6. Shape(d, f1)
  BY <1>1, <1>2, <1>3, <1>4, <1>5, <1>5a DEF Shape
<1>7. Placed(g, d, f1)
  BY <1>3, <1>5 DEF Placed
<1> QED BY <1>2, <1>3, <1>6, <1>7 DEF FrameOK, low

(* A step has left the results of the function on top to whoever called    *)
(* it.                                                                     *)
GoesBack ==
  \E f1, c1 :
    /\ lua' = Now(f1) /\ f1.ready = Frame.ready /\ Frame.ready /\ f1.ret = TRUE
    /\ StackOK(stk') /\ stk.last <= stk'.last
    /\ stk'.cis = Append(Front(stk.cis), c1) /\ c1.top = Last(stk.cis).top
    /\ nat' = Front(nat) /\ nat'[Len(nat')].kind \in Entry /\ rep' = FALSE

(* The results stay where the frame was called, and the activation below   *)
(* finds them there.                                                       *)
LEMMA LeavesResults ==
  ASSUME LoopInv, DataInv, StackHolds,
         NEW link, HoldsOK(stk, lua, nat, link), NEW to, Serving(Front(nat), to), Len(to) = Len(lua) - 1,
         \A j \in 1..(Len(lua) - 1) : Front(nat)[to[j]] = nat[link[j]],
         Last(nat).kind \in {"body", "ctail"}, Frame.ready,
         NEW src, NEW vs, IsSeq(vs), InPlace(stk, src, vs),
         NEW low, low = Low(Last(stk.cis), Frame), low + Len(vs) <= Room(stk),
         stk' = Topped(SetCI(Copy(stk, src, Len(vs), low), [Last(stk.cis) EXCEPT !.func = low]), low + Len(vs)),
         NEW f1, Leaving(Frame, f1, vs), lua' = Now(f1), nat' = Front(nat),
         rax' = Len(vs), rep' = FALSE, prog' = prog, fuel' = fuel
  PROVE  DataInv' /\ GoesBack
<1> DEFINE c == Last(stk.cis)
           c1 == [c EXCEPT !.func = low]
           K == Len(lua)
<1>1. /\ StackOK(stk) /\ IsSeq(lua) /\ K \in Nat \ {0} /\ IsSeq(stk.cis) /\ Len(stk.cis) = K
      /\ IsSeq(nat) /\ Len(nat) \in Nat \ {0} /\ Last(nat) = nat[Len(nat)]
      /\ Frame = lua[K] /\ c = stk.cis[K] /\ FrameOK(stk, c, Frame)
      /\ prog \in Programs /\ fuel \in Nat
  BY Anywhere
<1>2. Shape(c, Frame) /\ low \in Nat /\ Len(vs) \in Nat /\ stk.last \in Nat /\ Extra \in Nat
  BY <1>1, ShapeFacts, SeqFacts, ExtraNat DEF FrameOK, StackOK
<1>3. low + Len(vs) <= stk.last + Extra
  BY <1>2 DEF Room
<1>4. MovedTo(stk, stk', low, vs, c1)
  BY <1>1, <1>2, <1>3, MovedDown
<1>5. FrameOK(stk', c1, f1) /\ Low(c1, f1) = low /\ c1.func = low /\ c1.n = c.n
  BY <1>2, LeavingFrame
<1>5a. c1.top = c.top
  <2>1. DOMAIN c = {"func", "top", "n", "drive", "nextra"}
    BY <1>2 DEF Shape, InfoOK
  <2> HIDE DEF c
  <2> QED BY <2>1
<1> HIDE DEF c1
<1>6. SameBelow(stk.cis, stk'.cis) /\ stk'.cis[K] = c1
  <2>0. stk'.cis = Append(Front(stk.cis), c1)
    BY <1>4 DEF MovedTo
  <2>1. IsSeq(stk.cis) /\ Len(stk.cis) >= 1 /\ stk'.cis = Append(Front(stk.cis), c1) /\ Len(stk.cis) = K
    <3>1. K \in Nat \ {0} /\ Len(stk.cis) = K /\ IsSeq(stk.cis)
      BY <1>1
    <3> HIDE DEF K
    <3>2. K >= 1
      BY <3>1
    <3>3. Len(stk.cis) >= 1
      BY <3>1, <3>2
    <3> QED BY <3>1, <3>3, <2>0
  <2>2. SameBelow(stk.cis, Append(Front(stk.cis), c1)) /\ Append(Front(stk.cis), c1)[Len(stk.cis)] = c1
    BY <2>1, SameBelowNow
  <2> QED BY <2>1, <2>2
<1>7. SameBelow(lua, lua') /\ lua'[K] = f1 /\ Len(lua') = K
  <2>1. IsSeq(lua) /\ Len(lua) >= 1 /\ lua' = Append(Front(lua), f1)
    BY <1>1 DEF Now
  <2>2. SameBelow(lua, Append(Front(lua), f1)) /\ Append(Front(lua), f1)[Len(lua)] = f1
    BY <2>1, SameBelowNow
  <2> QED BY <2>1, <2>2 DEF SameBelow
<1>8. /\ Front(nat)[Len(Front(nat))].kind \in Entry
  <2>1. HasCIs(stk) /\ Same(stk, stk) /\ nat[Len(nat)].kind \in {"body", "ctail"}
    BY FitParts, <1>1 DEF LoopInv, Same, HasCIs
  <2>2. Kept(stk, stk)
    BY <2>1, SameTwice
  <2> QED BY <2>1, <2>2, Leaves
<1>9. nat'[Len(nat')].kind \in Entry /\ nat'[Len(nat')].kind \notin Helper \cup {"ctail"}
  BY <1>8 DEF Entry, Helper
<1>10. TopStep(stk, lua, nat, link, stk', lua', nat', to)
  <2>1. Agree(stk, stk', Low(stk.cis[Len(lua)], lua[Len(lua)]))
    BY <1>1, <1>4 DEF MovedTo
  <2>2. stk'.cis[Len(lua)].n = stk.cis[Len(lua)].n
    BY <1>1, <1>5, <1>6
  <2>3. Low(stk'.cis[Len(lua)], lua'[Len(lua)]) = Low(stk.cis[Len(lua)], lua[Len(lua)])
    BY <1>1, <1>5, <1>6, <1>7
  <2>4. FrameOK(stk', stk'.cis[Len(lua)], lua'[Len(lua)])
    BY <1>5, <1>6, <1>7
  <2>5. Serving(nat', to) /\ \A j \in 1..(Len(lua) - 1) : nat'[to[j]] = nat[link[j]]
    OBVIOUS
  <2>6. Len(to) = IF nat'[Len(nat')].kind \in Helper \cup {"ctail"} THEN Len(lua) ELSE Len(lua) - 1
    BY <1>9
  <2> QED BY <1>6, <1>7, <2>1, <2>2, <2>3, <2>4, <2>5, <2>6 DEF TopStep
<1>11. LeftOK(stk', c1, f1, Len(vs))
  <2>1. f1.ret /\ f1.regs = vs
    BY DEF Leaving
  <2>2. stk'.top = low + Len(vs) /\ stk'.last = stk.last /\ InPlace(stk', low, vs)
    BY <1>4 DEF MovedTo
  <2>3. stk'.top <= Room(stk')
    BY <2>2 DEF Room
  <2> QED BY <2>1, <2>2, <2>3, <1>5 DEF LeftOK
<1>12. TopOK(stk', nat'[Len(nat')], Len(lua'), stk'.cis[Len(lua')], lua'[Len(lua')], rax', rep')
  <2>1. TopOK(stk', nat'[Len(nat')], K, c1, f1, Len(vs), FALSE)
    <3>1. Len(vs) \in Int /\ Len(vs) # -1
      BY <1>2
    <3>2. nat'[Len(nat')].kind \notin {"body", "cfn"} /\ f1.ret
      BY <1>9 DEF Entry, Leaving
    <3> QED BY <3>1, <3>2, <1>9, <1>11 DEF TopOK
  <2> QED BY <2>1, <1>6, <1>7
<1>13. fuel' \in Nat
  BY <1>1
<1>14. DataInv'
  BY <1>1, <1>10, <1>12, <1>13, TopGoesOn
<1>15. GoesBack
  <2>1. f1.ready = Frame.ready /\ f1.ret = TRUE
    BY DEF Leaving
  <2>2. StackOK(stk') /\ stk.last <= stk'.last /\ stk'.cis = Append(Front(stk.cis), c1)
    BY <1>2, <1>4 DEF MovedTo
  <2> QED BY <2>1, <2>2, <1>5a, <1>9 DEF GoesBack
<1> QED BY <1>14, <1>15

(* Where a vararg function was called.                                     *)
LEMMA MovedBack ==
  ASSUME NEW link, Running(link), Frame.ready
  PROVE  /\ Last(stk.cis).func - Delta(stk) = Low(Last(stk.cis), Frame)
         /\ Low(Last(stk.cis), Frame) \in Nat /\ Low(Last(stk.cis), Frame) <= Last(stk.cis).func
<1>1. Shape(Last(stk.cis), Frame) /\ ~Frame.ret /\ Last(stk.cis).func \in Nat
  BY ShapeFacts DEF Running, FrameOK, RunOK
<1>2. Spread(Frame) <=> FnInfo[Frame.fn].vararg
  BY <1>1 DEF Spread
<1>3. Last(stk.cis).func - Delta(stk) = Low(Last(stk.cis), Frame)
  BY <1>1, <1>2 DEF Delta, Low
<1> QED BY <1>1, <1>3, ShapeFacts

(* The last n registers of the running function are its results.           *)
LEMMA LastRegs ==
  ASSUME StackOK(stk), Numbers, NEW a \in 0..Live
  PROVE  /\ IsSeq(SubSeq(Frame.regs, a + 1, Live)) /\ Len(SubSeq(Frame.regs, a + 1, Live)) = Live - a
         /\ InPlace(stk, Base(stk) + a, SubSeq(Frame.regs, a + 1, Live))
<1>1. IsSeq(Frame.regs) /\ Live \in Nat /\ Live = Len(Frame.regs) /\ Base(stk) \in Nat
      /\ InPlace(stk, Base(stk), Frame.regs)
  BY DEF Numbers
<1> DEFINE s == Frame.regs
           b == Base(stk)
           i == a + 1
           k == Live
<1>2. IsSeq(s) /\ k = Len(s) /\ b \in Nat /\ InPlace(stk, b, s) /\ k \in Nat /\ a \in 0..k
  BY <1>1
<1> HIDE DEF s, b, k
<1>3. i \in 1..(Len(s) + 1) /\ k \in (i - 1)..Len(s) /\ b + i - 1 = b + a /\ k - i + 1 = k - a
  BY <1>2
<1> HIDE DEF i
<1>4. IsSeq(SubSeq(s, i, k)) /\ Len(SubSeq(s, i, k)) = k - i + 1 /\ InPlace(stk, b + i - 1, SubSeq(s, i, k))
  BY <1>2, <1>3, Part, InPlacePart
<1> QED BY <1>3, <1>4 DEF s, b, i, k

(* OP_RETURN.                                                              *)
LEMMA ReturnKeeps ==
  ASSUME LoopInv, DataInv, StackHolds, NEW n \in Counts \cup {MULTRET}, Return(n)
  PROVE  DataInv' /\ GoesBack
<1>1. Runs("body") /\ Frame.ready
  BY DEF Return, MayLeave
<1>2. PICK link : Running(link)
  BY <1>1, BodyFacts
<1>3. Numbers /\ StackOK(stk)
  BY <1>2, RunningNumbers DEF Running
<1> DEFINE a == IF n = MULTRET THEN Frame.open ELSE Live - n
           vs == SubSeq(Frame.regs, a + 1, Live)
           low == Low(Last(stk.cis), Frame)
           f1 == [Frame EXCEPT !.regs = vs, !.extra = <<>>, !.ret = TRUE]
           count == IF n = MULTRET THEN stk.top - (Base(stk) + a) ELSE n
<1>4. a \in 0..Live /\ count = Live - a
  <2>1. CASE Frame.open >= 0
    <3>1. n = MULTRET /\ a = Frame.open
      BY <2>1 DEF Return
    <3>2. Frame.open \in Int /\ Live \in Nat /\ Frame.open + 1 <= Live /\ stk.top = Base(stk) + Live /\ Base(stk) \in Nat
      BY <2>1, <1>3 DEF Numbers
    <3> QED BY <2>1, <3>1, <3>2
  <2>2. CASE ~(Frame.open >= 0)
    <3>1. n \in 0..Live /\ Live \in Nat
      BY <2>2, <1>3 DEF Return, Numbers
    <3>2. n # MULTRET
      BY <3>1 DEF MULTRET
    <3> QED BY <3>1, <3>2
  <2> QED BY <2>1, <2>2
<1> HIDE DEF a
<1>5. IsSeq(vs) /\ Len(vs) = Live - a /\ InPlace(stk, Base(stk) + a, vs) /\ Len(vs) = count
  BY <1>3, <1>4, LastRegs
<1>6. Last(stk.cis).func - Delta(stk) = low /\ low \in Nat /\ low <= Last(stk.cis).func
  BY <1>1, <1>2, MovedBack
<1>7. stk' = Topped(SetCI(Copy(stk, Base(stk) + a, count, low), [Last(stk.cis) EXCEPT !.func = low]), low + count)
      /\ rax' = stk'.top - Last(stk'.cis).func /\ lua' = Now(f1)
      /\ nat' = Front(nat) /\ rep' = rep /\ fuel' = fuel /\ prog' = prog
  BY <1>6 DEF Return, PrepReturn, a
<1>8. DOMAIN Frame = {"fn", "regs", "extra", "open", "ready", "closed", "ret", "want"}
  BY <1>3 DEF Numbers
<1> HIDE DEF vs, low, count
<1>9. Leaving(Frame, f1, vs)
  BY <1>8 DEF Leaving
<1> HIDE DEF f1
<1>10. low + Len(vs) <= Room(stk)
  <2> DEFINE func == Last(stk.cis).func
             b == Base(stk)
             t == Last(stk.cis).top
             R == Room(stk)
             top == stk.top
             S == FrameSize
             L == Live
             l == Len(vs)
  <2>1. func \in Nat /\ b = func + 1 /\ low \in Nat /\ low <= func /\ a \in 0..L /\ l = L - a /\ R \in Nat
        /\ top \in Nat /\ top <= R /\ S \in Nat /\ b + S <= R /\ L \in Nat
    BY <1>3, <1>4, <1>5, <1>6 DEF Numbers
  <2>2. Frame.open >= 0 => top = b + L
    BY <1>3 DEF Numbers
  <2>3. Frame.open = -1 => L <= S
    BY <1>1, <1>3 DEF Numbers
  <2>4. Frame.open \in Int /\ Frame.open >= -1
    BY <1>3 DEF Numbers
  <2>5. b + L <= R
    <3> HIDE DEF b, R, top, S, L
    <3>1. CASE Frame.open >= 0
      BY <3>1, <2>1, <2>2
    <3>2. CASE Frame.open = -1
      BY <3>2, <2>1, <2>3
    <3> QED BY <3>1, <3>2, <2>4
  <2> HIDE DEF func, b, t, R, top, S, L, l
  <2>6. low + l <= R
    BY <2>1, <2>5
  <2> QED BY <2>6 DEF l, R
<1>11. stk' = Topped(SetCI(Copy(stk, Base(stk) + a, Len(vs), low), [Last(stk.cis) EXCEPT !.func = low]), low + Len(vs))
  BY <1>5, <1>7
<1>12. low \in Nat /\ low + Len(vs) <= stk.last + Extra
  <2>1. Len(vs) \in Nat /\ low \in Nat /\ Room(stk) + 3 = stk.last + Extra /\ Room(stk) \in Nat /\ stk.last + Extra \in Nat
    BY <1>3, <1>5, <1>6, SeqFacts DEF Numbers
  <2> QED BY <1>10, <2>1
<1>13. rax' = Len(vs)
  <2> DEFINE c1 == [Last(stk.cis) EXCEPT !.func = low]
  <2>1. MovedTo(stk, stk', low, vs, c1)
    BY <1>3, <1>5, <1>11, <1>12, MovedDown
  <2>2. c1.func = low
    BY <1>2 DEF Running, FrameOK, Shape, InfoOK
  <2>3. IsSeq(stk.cis) /\ Len(stk.cis) >= 1
    BY <1>2 DEF Running
  <2> HIDE DEF c1
  <2>4. Last(Append(Front(stk.cis), c1)) = c1
    BY <2>3, NowSeq DEF Last
  <2>5. stk'.top = low + Len(vs) /\ Last(stk'.cis) = c1
    BY <2>1, <2>4 DEF MovedTo
  <2>6. Len(vs) \in Nat
    BY <1>5, SeqFacts
  <2> QED BY <1>7, <1>12, <2>2, <2>5, <2>6
<1>14. /\ HoldsOK(stk, lua, nat, link) /\ Last(nat).kind \in {"body", "ctail"}
       /\ Len(link) = Len(lua) - 1 /\ rep' = FALSE
  BY <1>2, <1>7 DEF Running
<1>15. Serving(Front(nat), link) /\ \A j \in 1..(Len(lua) - 1) : Front(nat)[link[j]] = nat[link[j]]
  <2>1. Serving(nat, link) /\ IsSeq(nat) /\ Len(nat) >= 1 /\ nat[Len(nat)].kind \notin Server
    <3>1. HoldsOK(stk, lua, nat, link) /\ IsSeq(nat) /\ Len(nat) >= 1 /\ nat[Len(nat)].kind = "body"
      BY <1>2 DEF Running
    <3>2. Serving(nat, link)
      BY <3>1 DEF HoldsOK
    <3>3. nat[Len(nat)].kind \notin Server
      BY <3>1 DEF Server, Helper
    <3> QED BY <3>1, <3>2, <3>3
  <2>2. Serving(Front(nat), link)
    BY <2>1, ServingPop
  <2>3. \A j \in 1..Len(link) : Front(nat)[link[j]] = nat[link[j]]
    BY <2>1, ServingPop
  <2>4. Len(link) = Len(lua) - 1
    BY <1>14
  <2> QED BY <2>2, <2>3, <2>4
<1>16. low = Low(Last(stk.cis), Frame)
  BY DEF low
<1> QED BY <1>1, <1>5, <1>7, <1>9, <1>10, <1>11, <1>13, <1>14, <1>15, <1>16, LeavesResults

(* Rt_TailCall, after a C function: its results are moved too.             *)
LEMMA CTailReturnsKeeps ==
  ASSUME LoopInv, DataInv, StackHolds, CTailReturns
  PROVE  DataInv' /\ GoesBack
<1> DEFINE c == Last(stk.cis)
           x == Last(nat)
           vs == Frame.regs
           low == Low(c, Frame)
           f1 == [Frame EXCEPT !.ret = TRUE, !.extra = <<>>]
<1>1. x.kind = "ctail" /\ rax >= 0
  BY DEF CTailReturns, Waiting
<1>2. /\ StackOK(stk) /\ IsSeq(lua) /\ Len(lua) \in Nat \ {0}
      /\ IsSeq(nat) /\ Len(nat) \in Nat \ {0} /\ x = nat[Len(nat)]
      /\ FrameOK(stk, c, Frame) /\ TopOK(stk, x, Len(lua), c, Frame, rax, rep)
      /\ Frame = lua[Len(lua)] /\ c = stk.cis[Len(lua)] /\ IsSeq(stk.cis) /\ Len(stk.cis) = Len(lua)
  BY Anywhere
<1>3. DealOK(stk, x, Len(lua), c, Frame) /\ MidOK(stk, x, c, Frame, rax)
  BY <1>1, <1>2 DEF TopOK
<1>4. /\ InPlace(stk, c.func + 1 + x.a, vs) /\ rax = Len(vs) /\ c.func + 1 + x.a + Len(vs) <= Room(stk)
      /\ x.n = c.func - low /\ x.a \in Nat /\ Frame.ready
  BY <1>1, <1>3 DEF MidOK, DealOK
<1>5. Shape(c, Frame)
  BY <1>2 DEF FrameOK
<1>6. low \in Nat /\ low <= c.func /\ c.func \in Nat /\ IsSeq(vs) /\ Len(vs) \in Nat
  BY <1>5, ShapeFacts
<1> HIDE DEF low
<1>7. c.func - x.n = low /\ Base(stk) + x.a = c.func + 1 + x.a
  BY <1>4, <1>6 DEF Base
<1>8. stk' = Topped(SetCI(Copy(stk, c.func + 1 + x.a, Len(vs), low), [c EXCEPT !.func = low]), low + Len(vs))
  BY <1>4, <1>7 DEF CTailReturns
<1>9. lua' = Now(f1) /\ nat' = Front(nat) /\ rax' = rax /\ rep' = rep /\ fuel' = fuel /\ prog' = prog
  BY DEF CTailReturns
<1>10. rep = FALSE
  BY <1>1, <1>2 DEF LoopInv
<1>11. low + Len(vs) <= Room(stk)
  <2>1. stk.last \in Nat /\ Extra \in Nat /\ Room(stk) \in Int
    BY <1>2, ExtraNat DEF StackOK, Room
  <2> DEFINE func == c.func
             y == x.a
             R == Room(stk)
             l == Len(vs)
  <2>2. func \in Nat /\ y \in Nat /\ R \in Int /\ l \in Nat /\ low <= func /\ func + 1 + y + l <= R /\ low \in Nat
    BY <1>4, <1>6, <2>1
  <2> HIDE DEF func, y, R, l
  <2>3. low + l <= R
    BY <2>2
  <2> QED BY <2>3 DEF R, l
<1>12. Leaving(Frame, f1, vs)
  <2>1. DOMAIN Frame = {"fn", "regs", "extra", "open", "ready", "closed", "ret", "want"}
    BY <1>5 DEF Shape
  <2> QED BY <2>1 DEF Leaving
<1> HIDE DEF f1
<1>13. PICK link : HoldsOK(stk, lua, nat, link)
  BY DEF DataInv
<1>14. Serving(nat, link) /\ Len(link) = Len(lua) /\ nat[Len(nat)].kind \in Server
  BY <1>1, <1>2, <1>13 DEF HoldsOK, Server
<1> DEFINE to == Front(link)
<1>15. Serving(Front(nat), to) /\ Len(to) = Len(lua) - 1
       /\ \A j \in 1..(Len(lua) - 1) : Front(nat)[to[j]] = nat[link[j]]
  <2>1. Serving(Front(nat), Front(link)) /\ Len(Front(link)) = Len(link) - 1
        /\ \A j \in 1..(Len(link) - 1) : Front(link)[j] = link[j] /\ Front(nat)[link[j]] = nat[link[j]]
    BY <1>2, <1>14, ServingPop, SMTT(30)
  <2> QED BY <2>1, <1>14
<1> HIDE DEF to
<1>16. low = Low(Last(stk.cis), Frame) /\ rax' = Len(vs) /\ rep' = FALSE /\ Last(nat).kind \in {"body", "ctail"}
  BY <1>1, <1>4, <1>9, <1>10 DEF low
<1> QED BY <1>4, <1>6, <1>8, <1>9, <1>11, <1>12, <1>13, <1>15, <1>16, LeavesResults

-----------------------------------------------------------------------------
(* Tail calls.                                                             *)

(* What Rt_TailCall finds: the function and its arguments, below the       *)
(* stack's end.                                                            *)
TailReady(m, a, nargs, fn, args) ==
  /\ StackOK(m) /\ Agree(stk, m, Base(stk)) /\ m.cis = stk.cis /\ a \in Nat
  /\ fn \in DOMAIN FnInfo /\ IsSeq(args) /\ Callable(fn, args)
  /\ Has(m, Base(stk) + a, fn) /\ InPlace(m, Base(stk) + a + 1, args)
  /\ IF nargs = MULTRET THEN m.top = Base(stk) + a + 1 + Len(args) ELSE nargs = Len(args)
  /\ Base(stk) + a + 1 + Len(args) <= Room(m)

(* A call whose top is set behind the arguments.                           *)
LEMMA TailTop ==
  ASSUME NEW link, Running(link), NEW m, NEW a, NEW nargs, NEW fn, NEW args, TailReady(m, a, nargs, fn, args),
         NEW func, func = Base(stk) + a,
         NEW narg1, narg1 = IF nargs = MULTRET THEN m.top - func ELSE nargs + 1
  PROVE  LET g == Topped(m, func + narg1)
         IN /\ Ready(g, func, fn, args) /\ narg1 = Len(args) + 1 /\ g.cis = stk.cis /\ g.last = m.last
            /\ g.top <= Room(g) /\ Agree(stk, g, Base(stk)) /\ func \in Nat
            /\ func > Last(stk.cis).func
<1> DEFINE b == Base(stk)
           l == Len(args)
           t == func + narg1
           g == Topped(m, t)
           cf == Last(stk.cis).func
<1>1. Numbers /\ b \in Nat /\ l \in Nat /\ a \in Nat /\ StackOK(m) /\ IsSeq(args) /\ b = cf + 1 /\ cf \in Nat
  BY RunningNumbers, SeqFacts DEF TailReady, Numbers
<1>2. narg1 = l + 1
  <2>1. CASE nargs = MULTRET
    <3>1. m.top = b + a + 1 + l
      BY <2>1 DEF TailReady
    <3> DEFINE mt == m.top
    <3>2. narg1 = mt - func /\ mt = b + a + 1 + l /\ func = b + a
      BY <2>1, <3>1
    <3> HIDE DEF b, l, mt
    <3> QED BY <3>2, <1>1
  <2>2. CASE nargs # MULTRET
    BY <2>2 DEF TailReady
  <2> QED BY <2>1, <2>2
<1>3. func \in Nat /\ t \in Nat /\ t = func + 1 + l /\ func > cf
  <2> HIDE DEF b, l, cf
  <2>1. func = b + a
    BY DEF b
  <2> QED BY <2>1, <1>1, <1>2
<1>4. t <= Room(m)
  BY <1>3 DEF TailReady
<1>5. Has(m, func, fn) /\ InPlace(m, func + 1, args)
  BY DEF TailReady
<1> HIDE DEF t
<1>6. SameSlots(m, g) /\ g.top = t /\ g.cis = m.cis
  BY <1>1, <1>3, ToppedDoes
<1> HIDE DEF g
<1>7. StackOK(g) /\ g.last = m.last
  BY <1>6 DEF SameSlots
<1>8. Has(g, func, fn) /\ InPlace(g, func + 1, args) /\ Agree(m, g, b)
  BY <1>1, <1>5, <1>6, HasOne, SlotsKept
<1>9. Agree(stk, g, b)
  <2>1. StackOK(stk) /\ b \in Int /\ Agree(stk, m, b)
    BY <1>1 DEF Running, TailReady
  <2> QED BY <2>1, <1>8, AgreeSteps
<1>10. Ready(g, func, fn, args)
  <2>1. fn \in DOMAIN FnInfo /\ IsSeq(args)
    BY DEF TailReady
  <2> QED BY <2>1, <1>3, <1>6, <1>7, <1>8 DEF Ready
<1>11. g.top <= Room(g)
  BY <1>4, <1>6, <1>7 DEF Room
<1>12. m.cis = stk.cis
  BY DEF TailReady
<1> QED BY <1>2, <1>3, <1>6, <1>7, <1>9, <1>10, <1>11, <1>12 DEF g, t, b, l, cf

(* luaD_pretailcall has moved the function down over the frame's own.      *)
TailedTo(g, h, low, fn, args, c1) ==
  /\ StackOK(h) /\ Agree(g, h, low) /\ h.cis = Append(Front(g.cis), c1)
  /\ Has(h, low, fn) /\ InPlace(h, low + 1, Called(fn, args).regs)
  /\ h.top = low + 1 + Len(Given(fn, args)) /\ h.top <= Room(h)
  /\ low + 1 + FnInfo[fn].size <= Room(h)

(* The function and its parameters are written twice: first what there is, *)
(* then the missing ones.                                                  *)
TwicePut(m, p, at, k, s, t) ==
  /\ StackOK(p) /\ p.last = m.last /\ p.cis = m.cis /\ Agree(m, p, at)
  /\ InPlace(p, at, s) /\ InPlace(p, k, t)

(* Two writes, one behind the other.                                       *)
LEMMA PutTwice ==
  ASSUME NEW m, StackOK(m), NEW at \in Nat, NEW s, IsSeq(s), NEW t, IsSeq(t),
         at + Len(s) <= m.last + Extra, at + Len(s) + Len(t) <= m.last + Extra
  PROVE  TwicePut(m, Put(Put(m, at, s), at + Len(s), t), at, at + Len(s), s, t)
<1> DEFINE q == Put(m, at, s)
           k == at + Len(s)
           p == Put(q, k, t)
<1>1. Len(s) \in Nat /\ Len(t) \in Nat /\ k \in Nat
  BY SeqFacts
<1>2. StackOK(q) /\ q.last = m.last /\ q.cis = m.cis /\ InPlace(q, at, s) /\ Agree(m, q, at)
  BY PutDoes
<1>3. k = at + Len(s) /\ at <= k
  BY <1>1
<1> HIDE DEF q
<1>4. k + Len(t) <= q.last + Extra /\ at + Len(s) <= k
  BY <1>2, <1>3
<1> HIDE DEF k
<1>5. StackOK(p) /\ p.last = q.last /\ p.cis = q.cis /\ InPlace(p, k, t) /\ Agree(q, p, k)
  BY <1>1, <1>2, <1>4, PutDoes
<1>6. InPlace(p, at, s)
  BY <1>1, <1>2, <1>4, PutElsewhere
<1> HIDE DEF p
<1>7. Agree(m, p, at)
  <2>1. at \in Int /\ Agree(q, p, at)
    BY <1>1, <1>2, <1>3, <1>5, AgreeSteps
  <2> QED BY <2>1, <1>2, AgreeSteps
<1>8. TwicePut(m, p, at, k, s, t)
  BY <1>2, <1>5, <1>6, <1>7 DEF TwicePut
<1> QED BY <1>8 DEF p, q, k

(* The missing parameters follow the arguments.                            *)
LEMMA TailSums ==
  ASSUME NEW low \in Int, NEW l \in Int, NEW n, n = l + 1
  PROVE  low + 1 + l = low + n /\ \A k \in Int : low + n + (k - l) = low + 1 + k
OBVIOUS

(* luaD_pretailcall.                                                       *)
LEMMA PretailEnters ==
  ASSUME NEW g, NEW func, NEW fn, NEW args, Ready(g, func, fn, args), IsLua(fn), g.top <= Room(g),
         NEW c, c = Last(g.cis), InfoOK(c), c.func < func,
         NEW delta \in Nat, NEW low \in Nat, low = c.func - delta,
         NEW narg1, narg1 = Len(args) + 1,
         NEW h \in Pretailcall(g, func, narg1, delta)
  PROVE  TailedTo(g, h, low, fn, args, [c EXCEPT !.func = low, !.top = low + 1 + FnInfo[fn].size])
<1> DEFINE p == FnInfo[fn]
           l == Len(args)
           c1 == [c EXCEPT !.func = low, !.top = low + 1 + p.size]
           s == <<fn>> \o args
           d == p.params + 1 - narg1
           moved(q) == Put(Copy(q, func, narg1, low), low + narg1, Nils(d))
           top == low + Max({narg1, p.params + 1})
<1>1. StackOK(g) /\ func \in Nat /\ fn \in DOMAIN FnInfo /\ IsSeq(args) /\ g.top = func + 1 + l
      /\ Has(g, func, fn) /\ InPlace(g, func + 1, args)
  BY DEF Ready
<1>2. At(g, func) = fn
  BY <1>1, HasOne
<1>3. PICK q \in CheckStackGC(g, p.size - delta) : h = Topped(SetCI(moved(q), c1), top)
  BY <1>2 DEF Pretailcall
<1>4. p.params \in Nat /\ p.size \in Nat /\ p.params <= p.size /\ l \in Nat /\ c.func \in Nat /\ g.top \in Nat
  BY <1>1, FnFacts, SeqFacts DEF InfoOK, StackOK
<1>5. p.size - delta \in Int /\ d \in Int /\ narg1 \in Nat
  BY <1>4
<1> DEFINE need == p.size - delta
<1>6. StackOK(q) /\ q.top = g.top /\ q.cis = g.cis /\ Agree(g, q, g.top) /\ q.last >= g.top + need
  <2>1. need \in Int /\ q \in CheckStackGC(g, need)
    BY <1>3, <1>5
  <2> HIDE DEF need
  <2> QED BY <2>1, <1>1, CheckDoes
<1>7. Ready(q, func, fn, args) /\ Agree(g, q, func)
  BY <1>1, <1>6, ReadyChecked
<1>8. IsSeq(s) /\ Len(s) = narg1
  <2>1. IsSeq(<<fn>>) /\ Len(<<fn>>) = 1
    BY Singles
  <2>2. IsSeq(s) /\ Len(s) = Len(<<fn>>) + Len(args)
    BY <2>1, <1>1, Joined
  <2> QED BY <2>1, <2>2, <1>4
<1>9. InPlace(q, func, s)
  <2>1. Has(q, func, fn) /\ InPlace(q, func + 1, args)
    BY <1>7 DEF Ready
  <2>2. InPlace(q, func, <<fn>>)
    BY <2>1, <1>6, HasOne
  <2>3. IsSeq(<<fn>>) /\ Len(<<fn>>) = 1
    BY Singles
  <2> QED BY <2>1, <2>2, <2>3, <1>1, <1>6, InPlaceJoined
<1>10. Copy(q, func, narg1, low) = Put(q, low, s)
  <2> HIDE DEF s
  <2>1. Read(q, func, Len(s)) = s
    BY <1>6, <1>8, <1>9, ReadInPlace
  <2> QED BY <2>1, <1>8 DEF Copy
<1> HIDE DEF s
<1> DEFINE t == Nils(d)
           w == Put(Put(q, low, s), low + narg1, t)
<1>11. IsSeq(t) /\ Len(t) = IF d > 0 THEN d ELSE 0
  BY <1>5, NilsSeq
<1>12. d = p.params - l
  BY <1>4
<1>13. q.last \in Nat /\ g.last <= q.last /\ Room(q) \in Int /\ g.top <= Room(q)
       /\ Room(q) + 3 = q.last + Extra /\ Room(q) + 3 >= q.last + 3
  <2>1. q.last \in Nat /\ g.last <= q.last /\ g.last \in Nat /\ Extra \in Nat /\ Extra >= 3
    BY <1>1, <1>6, ExtraNat DEF Agree, StackOK
  <2>2. g.top <= g.last + Extra - 3
    BY DEF Room
  <2> DEFINE a == g.last
             b == q.last
             y == g.top
             r == Room(q)
  <2>3. a \in Nat /\ b \in Nat /\ a <= b /\ y \in Nat /\ y <= a + Extra - 3 /\ Extra \in Nat /\ Extra >= 3
        /\ r = b + Extra - 3
    BY <2>1, <2>2, <1>4 DEF Room
  <2> HIDE DEF a, b, y, r
  <2>4. b \in Nat /\ a <= b /\ r \in Int /\ y <= r /\ r + 3 = b + Extra /\ r + 3 >= b + 3
    BY <2>3
  <2> QED BY <2>4 DEF a, b, y, r
<1>14. low + narg1 <= q.last + Extra /\ low + narg1 + Len(t) <= q.last + Extra
       /\ low + 1 + l <= Room(q) /\ low + 1 + p.params <= Room(q) /\ low + 1 + p.size <= Room(q)
  <2> DEFINE k == p.params
             size == p.size
             room == Room(q)
             last == q.last
             cf == c.func
             gt == g.top
             x == last + Extra
             n == narg1
             lt == Len(t)
  <2>1. k \in Nat /\ size \in Nat /\ k <= size /\ l \in Nat /\ cf \in Nat /\ gt = func + 1 + l /\ last \in Nat
        /\ last >= gt + (size - delta) /\ room \in Int /\ gt <= room /\ room + 3 = x /\ room + 3 >= last + 3
        /\ low = cf - delta /\ cf < func /\ n = l + 1 /\ d = k - l /\ lt = IF d > 0 THEN d ELSE 0
    BY <1>1, <1>4, <1>6, <1>11, <1>12, <1>13
  <2> HIDE DEF k, size, room, last, cf, gt, x, n, lt, d, l
  <2>2. func \in Nat
    BY <1>1
  <2>3. low + 1 + l <= room
    BY <2>1, <2>2, SMTT(30)
  <2>4. low + 1 + k <= room
    BY <2>1, <2>2, SMTT(30)
  <2>4a. low + 1 + size <= room
    BY <2>1, <2>2, SMTT(30)
  <2>5. low + n <= x /\ low + n + lt <= x
    <3>1. low + n <= x
      BY <2>1, <2>3, SMTT(30)
    <3>2. CASE d > 0
      <4>1. lt = k - l
        BY <3>2, <2>1
      <4>2. low + n + lt = low + 1 + k
        <5>1. low \in Int /\ l \in Int /\ n = l + 1 /\ k \in Int
          BY <2>1
        <5> QED BY <4>1, <5>1, TailSums
      <4>3. low + 1 + k <= x
        BY <2>1, <2>4, SMTT(30)
      <4> QED BY <3>1, <4>2, <4>3
    <3>3. CASE ~(d > 0)
      <4>1. lt = 0
        BY <3>3, <2>1
      <4>2. low + n + lt = low + n
        BY <4>1, <2>1
      <4> QED BY <3>1, <4>2, SMTT(30)
    <3> QED BY <3>2, <3>3
  <2> QED BY <2>3, <2>4, <2>4a, <2>5 DEF k, size, room, n, lt, x, last
<1>15. StackOK(w) /\ w.last = q.last /\ w.cis = q.cis /\ Agree(q, w, low) /\ InPlace(w, low, s)
       /\ InPlace(w, low + narg1, t)
  <2> HIDE DEF t, d
  <2>1. low + Len(s) <= q.last + Extra /\ low + Len(s) + Len(t) <= q.last + Extra
    BY <1>8, <1>14
  <2> HIDE DEF w
  <2>2. w = Put(Put(q, low, s), low + Len(s), t) /\ low + Len(s) = low + narg1
    BY <1>8 DEF w
  <2>3. TwicePut(q, Put(Put(q, low, s), low + Len(s), t), low, low + Len(s), s, t)
    BY <2>1, <1>6, <1>8, <1>11, PutTwice
  <2> QED BY <2>2, <2>3 DEF TwicePut
<1>16. moved(q) = w
  BY <1>10
<1>17. Has(w, low, fn) /\ InPlace(w, low + 1, Given(fn, args))
  <2>1. IsSeq(<<fn>>) /\ Len(<<fn>>) = 1 /\ Len(s) = Len(<<fn>>) + l
    BY <1>4, <1>8, Singles
  <2>2. InPlace(w, low, <<fn>>) /\ InPlace(w, low + Len(<<fn>>), args)
    BY <2>1, <1>1, <1>15, InPlaceJoined DEF s
  <2>3. Has(w, low, fn)
    BY <2>2, <1>15, HasOne
  <2>4. InPlace(w, low + 1, args) /\ low + 1 + l = low + narg1
    <3>1. InPlace(w, low + 1, args)
      BY <2>1, <2>2
    <3>2. low + 1 + l = low + narg1
      <4>1. low \in Int /\ l \in Int /\ narg1 = l + 1
        BY <1>4
      <4>2. \A i, j \in Int : \A k : k = j + 1 => i + 1 + j = i + k
        OBVIOUS
      <4> HIDE DEF l
      <4> QED BY <4>1, <4>2
    <3> QED BY <3>1, <3>2
  <2>5. InPlace(w, low + 1, args \o t)
    <3> DEFINE b == low + 1
    <3>1. InPlace(w, b, args) /\ InPlace(w, b + Len(args), t)
      BY <2>4, <1>15
    <3> HIDE DEF b, t, w
    <3> QED BY <3>1, <1>1, <1>11, <1>15, InPlaceJoined DEF b
  <2>6. args \o t = Given(fn, args)
    BY <1>12 DEF Given
  <2> QED BY <2>3, <2>5, <2>6
<1>18. InPlace(w, low + 1, Called(fn, args).regs)
  BY <1>1, <1>15, <1>17, RegsInPlace
<1> DEFINE v == SetCI(w, c1)
<1>19. h = Topped(v, top)
  BY <1>3, <1>16
<1>20. Agree(g, w, low)
  <2>1. low \in Int /\ low <= func /\ func \in Int
    BY <1>1, <1>4
  <2>2. Agree(g, q, low)
    BY <2>1, <1>1, <1>7, AgreeSteps
  <2> HIDE DEF w
  <2> QED BY <2>1, <2>2, <1>1, <1>15, AgreeSteps
<1> HIDE DEF w, t, c1
<1>21. SameSlots(w, v) /\ v.cis = Append(Front(w.cis), c1)
  BY <1>15, SetCIDoes
<1>22. StackOK(v) /\ v.last = w.last
  BY <1>21 DEF SameSlots
<1> HIDE DEF v
<1>23. top \in Nat /\ top = low + 1 + Len(Given(fn, args)) /\ top <= Room(q)
  <2>1. Len(Given(fn, args)) = (IF l >= p.params THEN l ELSE p.params)
    BY <1>1, GivenFacts
  <2>2. Max({narg1, p.params + 1}) = IF narg1 >= p.params + 1 THEN narg1 ELSE p.params + 1
    BY <1>4, MaxOfTwo, SMTT(30)
  <2> DEFINE k == p.params
             x == Len(Given(fn, args))
             y == Max({narg1, k + 1})
             R == Room(q)
  <2>3. k \in Nat /\ l \in Nat /\ narg1 = l + 1 /\ x = (IF l >= k THEN l ELSE k)
        /\ y = (IF narg1 >= k + 1 THEN narg1 ELSE k + 1) /\ R \in Int
        /\ low + 1 + l <= R /\ low + 1 + k <= R
    BY <2>1, <2>2, <1>4, <1>13, <1>14
  <2> HIDE DEF k, x, y, R, l
  <2>4. low + y \in Nat /\ low + y = low + 1 + x /\ low + y <= R
    BY <2>3, SMTT(30)
  <2> QED BY <2>4 DEF k, x, y, R
<1> HIDE DEF top
<1>24. SameSlots(v, h) /\ h.top = top /\ h.cis = v.cis
  BY <1>19, <1>22, <1>23, ToppedDoes
<1>25. StackOK(h) /\ h.last = v.last
  BY <1>24 DEF SameSlots
<1>26. /\ Has(h, low, fn) /\ InPlace(h, low + 1, Called(fn, args).regs) /\ Agree(w, h, low)
  <2>1. Has(v, low, fn) /\ InPlace(v, low + 1, Called(fn, args).regs) /\ Agree(w, v, low)
    BY <1>15, <1>17, <1>18, <1>21, HasOne, SlotsKept
  <2>2. Has(h, low, fn) /\ InPlace(h, low + 1, Called(fn, args).regs) /\ Agree(v, h, low)
    BY <2>1, <1>22, <1>24, HasOne, SlotsKept
  <2> QED BY <2>1, <2>2, <1>15, AgreeSteps
<1>27. Agree(g, h, low)
  <2>1. low \in Int
    OBVIOUS
  <2> QED BY <2>1, <1>1, <1>20, <1>26, AgreeSteps
<1>28. h.top <= Room(h) /\ h.top = low + 1 + Len(Given(fn, args)) /\ low + 1 + p.size <= Room(h)
  <2>1. Room(h) = Room(q)
    BY <1>15, <1>22, <1>25 DEF Room
  <2> QED BY <2>1, <1>14, <1>23, <1>24
<1>29. h.cis = Append(Front(g.cis), c1)
  BY <1>6, <1>15, <1>21, <1>24
<1> QED BY <1>25, <1>26, <1>27, <1>28, <1>29 DEF TailedTo, c1

(* The CallInfo is taken over.                                             *)
TailInfo(c, c1, low, fn) ==
  /\ DOMAIN c1 = DOMAIN c /\ c1.func = low /\ c1.top = low + 1 + FnInfo[fn].size
  /\ c1.n = c.n /\ c1.nextra = c.nextra

(* Its frame is a new one, but for what is wanted of it.                   *)
IsCalled(f1, fn, args) ==
  /\ DOMAIN f1 = {"fn", "regs", "extra", "open", "ready", "closed", "ret", "want"}
  /\ f1.fn = fn /\ f1.extra = <<>> /\ f1.open = -1 /\ f1.ready = ~FnInfo[fn].vararg
  /\ f1.closed = FALSE /\ f1.ret = FALSE /\ f1.regs = Called(fn, args).regs

(* The fields of a frame that inherits what is wanted.                     *)
LEMMA CalledAgain ==
  ASSUME NEW fn, NEW args, NEW w
  PROVE  IsCalled([Called(fn, args) EXCEPT !.want = w], fn, args)
BY DEF Called, IsCalled

(* The function that replaces the running one.                             *)
TailGoes(m, c1, f1, low) ==
  FrameOK(m, c1, f1) /\ RunOK(m, c1, f1) /\ Low(c1, f1) = low /\ f1.ret = FALSE
(* It runs on where the other one was called.                              *)
LEMMA TailedFrame ==
  ASSUME NEW g, NEW h, NEW low \in Nat, NEW fn \in DOMAIN FnInfo, NEW args, IsSeq(args), IsLua(fn),
         NEW c0, TailedTo(g, h, low, fn, args, c0), NEW m, SameSlots(h, m), m.top = h.top,
         NEW c, InfoOK(c), NEW c1, TailInfo(c, c1, low, fn),
         NEW f1, IsCalled(f1, fn, args)
  PROVE  TailGoes(m, c1, f1, low)
<1>1. /\ DOMAIN f1 = {"fn", "regs", "extra", "open", "ready", "closed", "ret", "want"}
      /\ f1.fn = fn /\ f1.extra = <<>> /\ f1.open = -1 /\ f1.ready = ~FnInfo[fn].vararg
      /\ f1.closed = FALSE /\ f1.ret = FALSE /\ f1.regs = Called(fn, args).regs
  BY DEF IsCalled
<1>2. /\ IsSeq(f1.regs) /\ Len(f1.regs) \in Nat /\ FnInfo[fn].params <= Len(f1.regs)
      /\ ~FnInfo[fn].vararg => Len(f1.regs) = FnInfo[fn].params
      /\ FnInfo[fn].vararg => f1.regs = Given(fn, args)
  BY <1>1, CalledRegs
<1>3. /\ FnInfo[fn].params \in Nat /\ FnInfo[fn].size \in Nat /\ FnInfo[fn].vararg \in BOOLEAN
      /\ FnInfo[fn].params <= FnInfo[fn].size /\ FnInfo[fn].kind = "lua"
  BY FnFacts
<1>4. ~Spread(f1)
  BY <1>1 DEF Spread
<1>5. Low(c1, f1) = low
  BY <1>4 DEF Low, TailInfo
<1>6. InfoOK(c1) /\ c1.func + 1 + FnInfo[f1.fn].size <= c1.top
  <2> DEFINE s == FnInfo[fn].size
             t == low + 1 + s
  <2>1. s \in Nat
    BY <1>3
  <2> HIDE DEF s
  <2>2. t \in Nat
    BY <2>1
  <2>3. c1.top \in Nat /\ c1.func \in Nat /\ c1.n \in Int /\ c1.n >= -1 /\ c1.nextra \in Nat
        /\ DOMAIN c1 = {"func", "top", "n", "drive", "nextra"}
    BY <2>2 DEF InfoOK, s, TailInfo
  <2>4. c1.top = low + 1 + FnInfo[f1.fn].size /\ c1.func = low
    BY <1>1 DEF TailInfo
  <2> QED BY <2>3, <2>4 DEF InfoOK
<1>7. Shape(c1, f1)
  <2>1. FnInfo[f1.fn].kind \notin {"calls", "pcall"} /\ ~(f1.open >= 0) /\ f1.open \in Int /\ f1.open >= -1
    BY <1>1, <1>3
  <2>2. ~f1.ready => FnInfo[f1.fn].vararg /\ Len(f1.regs) >= FnInfo[f1.fn].params
    BY <1>1, <1>2, <1>3
  <2>3. IsSeq(f1.extra) /\ f1.ready \in BOOLEAN
    BY <1>1, <1>3, Singles
  <2>4. f1.fn \in DOMAIN FnInfo /\ f1.closed \in BOOLEAN /\ f1.ret \in BOOLEAN /\ f1.open = -1
    BY <1>1
  <2> QED BY <1>1, <1>2, <1>4, <1>5, <1>6, <2>1, <2>2, <2>3, <2>4 DEF Shape
<1>8. Has(m, low, fn) /\ InPlace(m, low + 1, f1.regs) /\ m.top = low + 1 + Len(Given(fn, args)) /\ m.top <= Room(m)
  <2>1. StackOK(h) /\ Has(h, low, fn) /\ InPlace(h, low + 1, f1.regs) /\ h.top = low + 1 + Len(Given(fn, args))
        /\ h.top <= Room(h)
    BY <1>1 DEF TailedTo
  <2>2. Has(m, low, fn) /\ InPlace(m, low + 1, f1.regs)
    BY <2>1, HasOne, SlotsKept
  <2>3. m.last = h.last
    BY DEF SameSlots
  <2> QED BY <2>1, <2>2, <2>3 DEF Room
<1>9. FrameOK(m, c1, f1)
  BY <1>1, <1>4, <1>7, <1>8 DEF FrameOK, Placed, TailInfo
<1>10. RunOK(m, c1, f1)
  <2>1. RegsOK(m, c1, f1) /\ ~f1.ret /\ IsLua(f1.fn)
    BY <1>1, <1>8 DEF RegsOK, TailInfo
  <2>2. Fits(f1)
    BY <1>1, <1>2, <1>3 DEF Fits
  <2>3. ~f1.ready \/ f1.open >= 0 => m.top = End(c1, f1)
    <3>1. f1.ready \/ FnInfo[fn].vararg
      BY <1>1, <1>3
    <3>2. FnInfo[fn].vararg => m.top = End(c1, f1)
      BY <1>2, <1>8 DEF End, TailInfo
    <3> QED BY <1>1, <3>1, <3>2
  <2> QED BY <2>1, <2>2, <2>3, <1>8 DEF RunOK
<1> QED BY <1>1, <1>5, <1>9, <1>10 DEF TailGoes

(* The drive loop is marked in the CallInfo.                               *)
LEMMA DrivesTo ==
  ASSUME NEW g, IsSeq(g.cis), Len(g.cis) >= 1, NEW h, NEW low, NEW fn, NEW args, NEW c1, TailedTo(g, h, low, fn, args, c1),
         "drive" \in DOMAIN c1, NEW m, m = h \/ m = Drives(h)
  PROVE  \E c2 : /\ StackOK(m) /\ m.top = h.top /\ SameSlots(h, m) /\ SameBelow(g.cis, m.cis)
                 /\ m.cis[Len(g.cis)] = c2
                 /\ DOMAIN c2 = DOMAIN c1 /\ c2.func = c1.func /\ c2.top = c1.top /\ c2.n = c1.n /\ c2.nextra = c1.nextra
<1>1. StackOK(h) /\ h.cis = Append(Front(g.cis), c1)
  BY DEF TailedTo
<1>2. SameBelow(g.cis, h.cis) /\ h.cis[Len(g.cis)] = c1 /\ Len(h.cis) = Len(g.cis) /\ IsSeq(h.cis)
  BY <1>1, SameBelowNow DEF SameBelow
<1>3. CASE m = h
  <2>1. SameSlots(h, m)
    BY <1>1, <1>3 DEF SameSlots
  <2> QED BY <1>1, <1>2, <1>3, <2>1
<1>4. CASE m = Drives(h)
  <2> DEFINE c2 == [Last(h.cis) EXCEPT !.drive = TRUE]
  <2>1. Last(h.cis) = c1
    BY <1>2 DEF Last
  <2>2. DOMAIN c2 = DOMAIN c1 /\ c2.func = c1.func /\ c2.top = c1.top /\ c2.n = c1.n /\ c2.nextra = c1.nextra
    BY <2>1
  <2>3. m = SetCI(h, c2)
    BY <1>4 DEF Drives
  <2> HIDE DEF c2
  <2>4. SameSlots(h, m) /\ m.top = h.top /\ m.cis = Append(Front(h.cis), c2)
    BY <1>1, <2>3, SetCIDoes
  <2>5. StackOK(m)
    BY <2>4 DEF SameSlots
  <2>6. Len(h.cis) >= 1 /\ IsSeq(h.cis)
    BY <1>2
  <2>7. SameBelow(h.cis, m.cis) /\ m.cis[Len(h.cis)] = c2
    <3>1. SameBelow(h.cis, Append(Front(h.cis), c2)) /\ Append(Front(h.cis), c2)[Len(h.cis)] = c2
      BY <2>6, SameBelowNow
    <3> QED BY <3>1, <2>4
  <2>8. SameBelow(g.cis, m.cis) /\ m.cis[Len(g.cis)] = c2
    BY <1>2, <2>7 DEF SameBelow
  <2> QED BY <2>2, <2>4, <2>5, <2>8
<1> QED BY <1>3, <1>4

(* The machine stack behind a tail call of a native function.              *)
TailStack(under, nested) == under \o (IF nested THEN <<>> ELSE <<Act("drive", 0, 0), Body>>)
(* Behind a tail call the same frames are served as before it.             *)
LEMMA TailServing ==
  ASSUME NEW under, IsSeq(under), Len(under) >= 1, NEW link, Serving(under, link), NEW nested \in BOOLEAN,
         NEW t, t = TailStack(under, nested)
  PROVE  /\ Serving(t, link) /\ \A j \in 1..Len(link) : t[link[j]] = under[link[j]]
         /\ nested => t = under
         /\ ~nested => t[Len(t)].kind = "body"
<1>1. CASE nested
  <2>1. t = under
    <3> DEFINE none == <<>>
    <3>1. IsSeq(none) /\ Len(none) = 0
      BY Singles
    <3>2. t = under \o none
      BY <1>1 DEF TailStack
    <3> HIDE DEF none
    <3> QED BY <3>1, <3>2, Joined
  <2> QED BY <1>1, <2>1
<1>2. CASE ~nested
  <2> DEFINE d == Act("drive", 0, 0)
             b == Body
             u == Append(under, d)
  <2>1. t = under \o <<d, b>>
    BY <1>2 DEF TailStack
  <2>2. d.kind = "drive" /\ b.kind = "body" /\ d.kind \notin Server /\ b.kind \notin Server
    BY DEF Act, Body, Server, Helper
  <2> HIDE DEF d, b
  <2>3. t = Append(u, b)
    BY <2>1, TwoLonger
  <2>4. Longer(under, u, d)
    BY AppendLonger
  <2>5. IsSeq(u) /\ Len(u) \in Nat
    BY <2>4, SeqFacts DEF Longer
  <2>6. Longer(u, t, b)
    BY <2>3, <2>5, AppendLonger
  <2> HIDE DEF u
  <2>6a. Serving(u, link)
    BY <2>2, <2>4, ServingPush
  <2>6b. \A j \in 1..Len(link) : u[link[j]] = under[link[j]]
    BY <2>2, <2>4, ServingPush
  <2>7. Serving(u, link) /\ \A j \in 1..Len(link) : u[link[j]] = under[link[j]]
    BY <2>6a, <2>6b
  <2>8. Serving(t, link) /\ \A j \in 1..Len(link) : t[link[j]] = u[link[j]]
    BY <2>2, <2>5, <2>6, <2>7, ServingPush
  <2>9. t[Len(t)] = b
    BY <2>6 DEF Longer
  <2> QED BY <1>2, <2>2, <2>7, <2>8, <2>9
<1> QED BY <1>1, <1>2

(* The activations below the running body.                                 *)
LEMMA BelowBody ==
  ASSUME LoopInv, NEW link, Running(link)
  PROVE  /\ IsSeq(Front(nat)) /\ Len(Front(nat)) >= 1 /\ Serving(Front(nat), link)
         /\ \A j \in 1..Len(link) : Front(nat)[link[j]] = nat[link[j]]
         /\ Front(nat)[Len(Front(nat))].kind \in Entry
<1>1. HoldsOK(stk, lua, nat, link) /\ IsSeq(nat) /\ Len(nat) >= 1 /\ nat[Len(nat)].kind = "body" /\ Len(nat) \in Nat
  BY DEF Running
<1>2. Serving(nat, link)
  BY <1>1 DEF HoldsOK
<1>3. nat[Len(nat)].kind \notin Server
  BY <1>1 DEF Server, Helper
<1>4. Serving(Front(nat), link)
  BY <1>1, <1>2, <1>3, ServingPop
<1>5. \A j \in 1..Len(link) : Front(nat)[link[j]] = nat[link[j]]
  BY <1>1, <1>2, <1>3, ServingPop
<1>6. HasCIs(stk) /\ Same(stk, stk) /\ Ordered(nat)
  BY FitParts DEF LoopInv, Same, HasCIs
<1>7. Kept(stk, stk)
  BY <1>6, SameTwice
<1>8. /\ Front(nat)[Len(Front(nat))].kind \in Entry /\ IsSeq(Front(nat))
      /\ Last(stk.cis).drive <=> Front(nat)[Len(Front(nat))].kind = "drive"
  BY <1>1, <1>7, Leaves
<1>9. Len(Front(nat)) >= 1
  <2>1. nat[1].kind = "cfn"
    BY <1>6 DEF Ordered
  <2>2. Len(nat) # 1
    BY <1>1, <2>1
  <2>3. Len(Front(nat)) = Len(nat) - 1
    BY <1>1, FrontShorter DEF Shorter
  <2> QED BY <1>1, <2>2, <2>3
<1> QED BY <1>4, <1>5, <1>8, <1>9

(* A tail call that is left to a loop is made right above it.              *)
LEMMA NestedDrive ==
  ASSUME LoopInv, NEW link, Running(link), Nested
  PROVE  Front(nat)[Len(Front(nat))].kind = "drive"
<1>1. nat[Len(nat)].kind = "body" /\ Last(stk.cis).drive
  BY DEF Running, Nested
<1>2. HasCIs(stk) /\ Same(stk, stk)
  BY FitParts DEF LoopInv, Same, HasCIs
<1>3. Kept(stk, stk)
  BY <1>2, SameTwice
<1> QED BY <1>1, <1>3, Leaves

(* A step has put a function in the place of the running one.              *)
TakesOver ==
  \E fn, args, f1, c :
    /\ fn \in DOMAIN FnInfo /\ IsCalled(f1, fn, args) /\ lua' = Now(f1)
    /\ StackOK(stk') /\ stk.last <= stk'.last /\ SameBelow(stk.cis, stk'.cis) /\ stk'.cis[Len(lua)] = c
    /\ c.func \in Nat /\ c.top = c.func + 1 + FnInfo[fn].size /\ c.top <= Room(stk')
    /\ nat' = TailStack(Front(nat), Nested)

(* Rt_TailCall.                                                            *)
LEMMA TailLuaKeeps ==
  ASSUME LoopInv, NEW link, Running(link), Frame.ready,
         NEW m, NEW a, NEW nargs, NEW fn, NEW args, TailReady(m, a, nargs, fn, args), IsLua(fn),
         RtTailCall(m, a, nargs, fn, args), prog' = prog, fuel' \in Nat
  PROVE  DataInv' /\ TakesOver
<1> DEFINE func == Base(stk) + a
           narg1 == IF nargs = MULTRET THEN m.top - func ELSE nargs + 1
           g == Topped(m, func + narg1)
           c == Last(stk.cis)
           low == Low(c, Frame)
           f1 == [Called(fn, args) EXCEPT !.want = Frame.want]
           K == Len(lua)
<1>1. /\ HoldsOK(stk, lua, nat, link) /\ Len(link) = K - 1
      /\ StackOK(stk) /\ IsSeq(lua) /\ K \in Nat \ {0} /\ K >= 1 /\ IsSeq(stk.cis) /\ Len(stk.cis) = K
      /\ Frame = lua[K] /\ c = stk.cis[K] /\ FrameOK(stk, c, Frame) /\ prog \in Programs /\ rax = -1
  BY DEF Running
<1>2. StackOK(m) /\ m.cis = stk.cis /\ Agree(stk, m, Base(stk)) /\ fn \in DOMAIN FnInfo /\ IsSeq(args)
      /\ Has(m, func, fn) /\ a \in Nat
  BY DEF TailReady
<1>3. At(m, func) = fn /\ Base(m) = Base(stk) /\ Delta(m) = Delta(stk)
  BY <1>2, HasOne DEF Base, Delta
<1>4. /\ lua' = Now(f1)
      /\ \E t \in Pretailcall(g, func, narg1, Delta(stk)) : stk' = IF Nested THEN t ELSE Drives(t)
      /\ nat' = TailStack(Front(nat), Nested)
      /\ rax' = (IF Nested THEN 0 ELSE -1) /\ rep' = Nested
  BY <1>3 DEF RtTailCall, TailStack
<1>5. PICK t \in Pretailcall(g, func, narg1, Delta(stk)) : stk' = IF Nested THEN t ELSE Drives(t)
  BY <1>4
<1>6. /\ Ready(g, func, fn, args) /\ narg1 = Len(args) + 1 /\ g.cis = stk.cis /\ g.last = m.last
      /\ g.top <= Room(g) /\ Agree(stk, g, Base(stk)) /\ func \in Nat /\ func > c.func
  BY TailTop
<1>7. c.func - Delta(stk) = low /\ low \in Nat /\ low <= c.func /\ c.func \in Nat
  BY MovedBack, <1>1, ShapeFacts DEF FrameOK
<1>8. Delta(stk) \in Nat
  <2>1. FnInfo[Frame.fn].params \in Nat /\ c.nextra \in Nat
    BY <1>1, ShapeFacts DEF FrameOK
  <2> QED BY <2>1 DEF Delta
<1> HIDE DEF func, narg1, low
<1> DEFINE delta == Delta(stk)
           c1 == [c EXCEPT !.func = low, !.top = low + 1 + FnInfo[fn].size]
<1>9. InfoOK(c) /\ c = Last(g.cis) /\ c.func < func /\ low = c.func - delta
  <2>1. low = c.func - delta
    BY <1>7, <1>8
  <2> QED BY <2>1, <1>1, <1>6 DEF FrameOK, Shape
<1>10. TailedTo(g, t, low, fn, args, c1)
  <2>1. delta \in Nat /\ t \in Pretailcall(g, func, narg1, delta)
    BY <1>5, <1>8
  <2> HIDE DEF delta, g
  <2> QED BY <2>1, <1>6, <1>7, <1>9, PretailEnters
<1>11. "drive" \in DOMAIN c1 /\ DOMAIN c1 = DOMAIN c /\ c1.func = low /\ c1.top = low + 1 + FnInfo[fn].size
       /\ c1.n = c.n /\ c1.nextra = c.nextra
  BY <1>9 DEF InfoOK
<1> HIDE DEF c1, g
<1>12. PICK c2 :
          /\ StackOK(stk') /\ stk'.top = t.top /\ SameSlots(t, stk') /\ SameBelow(g.cis, stk'.cis)
          /\ stk'.cis[Len(g.cis)] = c2
          /\ DOMAIN c2 = DOMAIN c1 /\ c2.func = c1.func /\ c2.top = c1.top /\ c2.n = c1.n /\ c2.nextra = c1.nextra
  <2>1. IsSeq(g.cis) /\ Len(g.cis) >= 1
    BY <1>1, <1>6
  <2>2. stk' = t \/ stk' = Drives(t)
    BY <1>5
  <2> QED BY <2>1, <2>2, <1>10, <1>11, DrivesTo
<1>13. SameBelow(stk.cis, stk'.cis) /\ stk'.cis[K] = c2
  BY <1>1, <1>6, <1>12
<1>14. FrameOK(stk', c2, f1) /\ RunOK(stk', c2, f1) /\ Low(c2, f1) = low /\ f1.ret = FALSE
  <2>1. TailInfo(c, c2, low, fn)
    BY <1>11, <1>12 DEF TailInfo
  <2>2. IsCalled(f1, fn, args)
    BY CalledAgain
  <2> HIDE DEF f1
  <2>3. InfoOK(c) /\ low \in Nat /\ fn \in DOMAIN FnInfo /\ IsSeq(args)
    BY <1>2, <1>7, <1>9
  <2>4. SameSlots(t, stk') /\ stk'.top = t.top
    BY <1>12
  <2> HIDE DEF c
  <2>5. TailGoes(stk', c2, f1, low)
    BY <2>1, <2>2, <2>3, <2>4, <1>10, TailedFrame
  <2> QED BY <2>5 DEF TailGoes
<1>14a. IsCalled(f1, fn, args)
  BY CalledAgain
<1> HIDE DEF f1
<1>15. SameBelow(lua, lua') /\ lua'[K] = f1 /\ Len(lua') = K
  <2>1. IsSeq(lua) /\ Len(lua) >= 1 /\ lua' = Append(Front(lua), f1)
    BY <1>1, <1>4 DEF Now
  <2>2. SameBelow(lua, Append(Front(lua), f1)) /\ Append(Front(lua), f1)[Len(lua)] = f1
    BY <2>1, SameBelowNow
  <2> QED BY <2>1, <2>2 DEF SameBelow
<1>16. Agree(stk, stk', low)
  <2>1. Base(stk) \in Int /\ low \in Int /\ low <= Base(stk)
    <3>1. Base(stk) = c.func + 1
      BY DEF Base
    <3> QED BY <3>1, <1>7
  <2>2. Agree(stk, g, low)
    BY <2>1, <1>1, <1>6, AgreeSteps
  <2>3. StackOK(t) /\ Agree(g, t, low)
    BY <1>10 DEF TailedTo
  <2>4. Agree(t, stk', low)
    BY <2>3, <1>12, SlotsKept
  <2>5. Agree(stk, t, low)
    BY <2>1, <2>2, <2>3, <1>1, AgreeSteps
  <2> QED BY <2>1, <2>4, <2>5, <1>1, AgreeSteps
<1> DEFINE under == Front(nat)
<1>17. IsSeq(under) /\ Len(under) >= 1 /\ Serving(under, link) /\ under[Len(under)].kind \in Entry
       /\ \A j \in 1..Len(link) : under[link[j]] = nat[link[j]]
  BY BelowBody
<1>18. Nested \in BOOLEAN
  BY FitParts, Current DEF LoopInv, Nested
<1> HIDE DEF under
<1>19. /\ Serving(nat', link) /\ \A j \in 1..Len(link) : nat'[link[j]] = under[link[j]]
       /\ Nested => nat' = under
       /\ ~Nested => nat'[Len(nat')].kind = "body"
  <2>1. nat' = TailStack(under, Nested)
    BY <1>4 DEF under
  <2> QED BY <2>1, <1>17, <1>18, TailServing
<1>20. nat'[Len(nat')].kind = (IF Nested THEN "drive" ELSE "body")
  <2>1. CASE Nested
    <3>1. nat' = under
      BY <2>1, <1>19
    <3>2. under[Len(under)].kind = "drive"
      BY <2>1, NestedDrive DEF under
    <3> QED BY <2>1, <3>1, <3>2
  <2>2. CASE ~Nested
    BY <2>2, <1>19
  <2> QED BY <2>1, <2>2
<1>21. TopStep(stk, lua, nat, link, stk', lua', nat', link)
  <2>1. Agree(stk, stk', Low(stk.cis[Len(lua)], lua[Len(lua)]))
    BY <1>1, <1>16 DEF low
  <2>2. stk'.cis[Len(lua)].n = stk.cis[Len(lua)].n
    BY <1>1, <1>11, <1>12, <1>13
  <2>3. Low(stk'.cis[Len(lua)], lua'[Len(lua)]) = Low(stk.cis[Len(lua)], lua[Len(lua)])
    BY <1>1, <1>13, <1>14, <1>15 DEF low
  <2>4. FrameOK(stk', stk'.cis[Len(lua)], lua'[Len(lua)])
    BY <1>13, <1>14, <1>15
  <2>5. Serving(nat', link) /\ \A j \in 1..(Len(lua) - 1) : nat'[link[j]] = nat[link[j]]
    BY <1>1, <1>17, <1>19
  <2>6. Len(link) = IF nat'[Len(nat')].kind \in Helper \cup {"ctail"} THEN Len(lua) ELSE Len(lua) - 1
    BY <1>1, <1>20 DEF Helper
  <2> QED BY <1>1, <1>13, <1>15, <2>1, <2>2, <2>3, <2>4, <2>5, <2>6 DEF TopStep
<1>22. TopOK(stk', nat'[Len(nat')], Len(lua'), stk'.cis[Len(lua')], lua'[Len(lua')], rax', rep')
  <2>1. TopOK(stk', nat'[Len(nat')], K, c2, f1, rax', rep')
    BY <1>4, <1>14, <1>20 DEF TopOK, Entry, Helper
  <2> QED BY <2>1, <1>13, <1>15
<1>23. TakesOver
  <2>1. c2.func = low /\ c2.top = c2.func + 1 + FnInfo[fn].size
    BY <1>11, <1>12
  <2>2. low + 1 + FnInfo[fn].size <= Room(t)
    BY <1>10 DEF TailedTo
  <2>3. Room(stk') = Room(t)
    BY <1>12 DEF SameSlots, Room
  <2>4. stk.last <= stk'.last
    BY <1>16 DEF Agree
  <2> QED BY <2>1, <2>2, <2>3, <2>4, <1>2, <1>4, <1>7, <1>12, <1>13, <1>14a DEF TakesOver
<1>24. DataInv'
  BY <1>1, <1>21, <1>22, TopGoesOn
<1> QED BY <1>23, <1>24

(* Rt_TailCall of a C function: its frame goes on top of the one that is   *)
(* left.                                                                   *)
LEMMA TailCKeeps ==
  ASSUME LoopInv, NEW link, Running(link), Frame.ready,
         NEW m, NEW a, NEW nargs, NEW fn, NEW args, TailReady(m, a, nargs, fn, args), ~IsLua(fn),
         RtTailCall(m, a, nargs, fn, args), prog' = prog, fuel' \in Nat
  PROVE  DataInv' /\ HandsOver
<1> DEFINE func == Base(stk) + a
           narg1 == IF nargs = MULTRET THEN m.top - func ELSE nargs + 1
           g == Topped(m, func + narg1)
           c == Last(stk.cis)
           low == Low(c, Frame)
           none == <<>>
           n == MULTRET
           f1 == Waits(none, none, n, none)
           x == Act("ctail", a, Delta(stk))
<1>1. /\ HoldsOK(stk, lua, nat, link) /\ Len(link) = Len(lua) - 1 /\ StackOK(stk)
      /\ Frame = lua[Len(lua)] /\ c = stk.cis[Len(lua)] /\ FrameOK(stk, c, Frame) /\ ~Frame.ret /\ IsLua(Frame.fn)
      /\ prog \in Programs /\ rax = -1 /\ rep = FALSE
  BY DEF Running, RunOK
<1>2. StackOK(m) /\ m.cis = stk.cis /\ fn \in DOMAIN FnInfo /\ IsSeq(args) /\ Callable(fn, args)
      /\ Has(m, func, fn) /\ a \in Nat
  BY DEF TailReady
<1>3. At(m, func) = fn /\ Base(m) = Base(stk) /\ Delta(m) = Delta(stk)
  BY <1>2, HasOne DEF Base, Delta
<1>4. LuaDCall(g, func, n, Append(Front(nat), x), f1, args) /\ rax' = rax /\ rep' = rep
  BY <1>3 DEF RtTailCall
<1>5. /\ Ready(g, func, fn, args) /\ g.cis = stk.cis /\ Agree(stk, g, Base(stk)) /\ func \in Nat /\ func > c.func
  BY TailTop
<1>6. c.func - Delta(stk) = low /\ low \in Nat /\ low <= c.func /\ c.func \in Nat
  BY MovedBack, <1>1, ShapeFacts DEF FrameOK
<1>7. Numbers
  BY RunningNumbers
<1>8. n = -1 /\ n \in Int /\ n >= -1 /\ IsSeq(none) /\ Len(none) = 0
  BY Singles DEF MULTRET
<1>9. none = <<>>
  OBVIOUS
<1> HIDE DEF n, none
<1>10. /\ Later(Frame, f1) /\ f1.regs = none /\ f1.open = -1
       /\ f1.want.pre = none /\ f1.want.n = n /\ f1.want.post = none
  BY <1>7, <1>8, WaitsFields
<1>11. Low(c, f1) = low
  BY <1>10 DEF Low, Spread, Later
<1>12. x.kind = "ctail" /\ x.a = a /\ x.n = Delta(stk)
  BY DEF Act
<1>13. x.n = c.func - low
  <2>1. FnInfo[Frame.fn].params \in Nat /\ c.nextra \in Nat
    BY <1>1, ShapeFacts DEF FrameOK
  <2>2. Delta(stk) \in Nat
    BY <2>1 DEF Delta
  <2> QED BY <2>2, <1>6, <1>12
<1> HIDE DEF f1, x, low
<1>14. DealOK(stk, x, Len(lua), c, f1) /\ DealOK(g, x, Len(lua), c, f1)
  <2>1. f1.ready /\ ~f1.ret /\ IsLua(f1.fn)
    BY <1>1, <1>10 DEF Later
  <2>2. x.kind \in Server /\ x.kind \notin {"calls", "pcall", "rtcall", "slow", "meta", "tfor", "close"}
    BY <1>12 DEF Server
  <2>3. IsSeq(f1.want.pre) /\ IsSeq(f1.want.post) /\ f1.want.n \in Int /\ f1.want.n >= -1 /\ f1.want.post = <<>>
        /\ f1.want.pre = <<>> /\ f1.want.n = -1
    BY <1>8, <1>9, <1>10
  <2>4. f1.open = -1 /\ x.a \in Nat /\ x.n = c.func - Low(c, f1)
    BY <1>2, <1>10, <1>11, <1>12, <1>13
  <2> QED BY <2>1, <2>2, <2>3, <2>4 DEF DealOK
<1>15. WaitOK(g, x, c, f1, n, func)
  <2>1. func = c.func + 1 + x.a
    BY <1>12 DEF Base
  <2>2. n = f1.want.n /\ ~(f1.want.n >= 0) /\ f1.regs = f1.want.pre
    BY <1>8, <1>10
  <2> QED BY <2>1, <2>2, <1>12 DEF WaitOK
<1> HIDE DEF func, narg1
<1>16. /\ OneOK(g, x, Len(lua), c, f1, n, func) /\ Agree(stk, g, low)
  <2>1. Base(stk) \in Nat /\ Base(stk) = c.func + 1
    BY <1>7 DEF Numbers
  <2>2. InPlace(g, Base(stk), f1.regs) /\ Len(f1.regs) = 0
    <3>1. Base(stk) + 0 <= g.last + Extra
      <4>1. stk.last <= g.last /\ Base(stk) + FrameSize <= stk.last + Extra /\ FrameSize \in Nat
            /\ stk.last \in Nat /\ g.last \in Nat /\ Extra \in Nat
        BY <1>1, <1>5, <1>7, ExtraNat DEF Numbers, Agree, StackOK
      <4> DEFINE b == Base(stk)
                 s == stk.last
                 l == g.last
                 z == FrameSize
      <4>2. s <= l /\ b + z <= s + Extra /\ z \in Nat /\ s \in Nat /\ l \in Nat /\ Extra \in Nat /\ b \in Nat
        BY <4>1, <2>1
      <4> HIDE DEF b, s, l, z
      <4>3. b + 0 <= l + Extra
        BY <4>2
      <4> QED BY <4>3 DEF b, l
    <3>2. Len(f1.regs) = 0
      BY <1>8, <1>10
    <3> QED BY <2>1, <3>1, <3>2 DEF InPlace
  <2>3. Base(stk) + Len(f1.regs) <= func
    BY <2>1, <2>2, <1>5, <1>6
  <2> HIDE DEF g
  <2>4. OneOK(g, x, Len(lua), c, f1, n, func) /\ Agree(stk, g, Low(c, Frame))
    BY <2>2, <2>3, <1>5, <1>10, <1>14, <1>15, WaitingFrame
  <2> QED BY <2>4 DEF low
<1> HIDE DEF g
<1> DEFINE under == Front(nat)
<1>17. IsSeq(under) /\ Serving(under, link) /\ \A j \in 1..Len(link) : under[link[j]] = nat[link[j]]
  BY BelowBody
<1> HIDE DEF under
<1>18. Handed(g, func, n, under, x, f1, fn, args) /\ Exact(stk', func, fn)
  <2>1. LuaDCall(g, func, n, Append(under, x), f1, args)
    BY <1>4 DEF under
  <2> QED BY <2>1, <1>5, <1>8, <1>17, LuaDCalls
<1>19. rax' = -1 /\ rep' = FALSE
  BY <1>1, <1>4
<1> HIDE DEF c
<1>20. /\ Agree(stk, g, Low(stk.cis[Len(lua)], lua[Len(lua)]))
       /\ Low(stk.cis[Len(lua)], f1) = Low(stk.cis[Len(lua)], lua[Len(lua)])
       /\ OneOK(g, x, Len(lua), stk.cis[Len(lua)], f1, n, func)
  BY <1>1, <1>11, <1>16 DEF low
<1>21. DataInv'
  BY <1>1, <1>2, <1>5, <1>17, <1>18, <1>19, <1>20, CallKeeps
<1>22. HandsOver
  <2>1. stk.last <= g.last /\ under = Front(nat)
    BY <1>5 DEF Agree, under
  <2>2. x.kind # "tfor"
    BY <1>12
  <2>3. OpenFine(f1)
    BY <1>10 DEF OpenFine
  <2> QED BY <1>5, <1>18, <2>1, <2>2, <2>3 DEF HandsOver
<1> QED BY <1>21, <1>22

(* Rt_TailCall, of any function.                                           *)
LEMMA RtTailCallKeeps ==
  ASSUME LoopInv, NEW link, Running(link), Frame.ready,
         NEW m, NEW a, NEW nargs, NEW fn, NEW args, TailReady(m, a, nargs, fn, args),
         RtTailCall(m, a, nargs, fn, args), prog' = prog, fuel' \in Nat
  PROVE  DataInv' /\ (HandsOver \/ TakesOver)
<1>1. CASE IsLua(fn)
  BY <1>1, TailLuaKeeps
<1>2. CASE ~IsLua(fn)
  BY <1>2, TailCKeeps
<1> QED BY <1>1, <1>2

(* A tail call with as many arguments as the program says.                 *)
LEMMA TailCallKeeps ==
  ASSUME LoopInv, DataInv, StackHolds, NEW fn \in prog.fns, NEW nargs \in Nat, TailCall(fn, nargs)
  PROVE  DataInv' /\ (HandsOver \/ TakesOver)
<1>1. Runs("body") /\ Frame.ready /\ Frame.open = -1 /\ fuel > 0 /\ fuel' = fuel - 1 /\ prog' = prog
  BY DEF TailCall, MayLeave
<1>2. PICK link : Running(link)
  BY <1>1, BodyFacts
<1>3. Numbers /\ StackOK(stk) /\ prog \in Programs /\ fuel \in Nat
  BY <1>2, RunningNumbers DEF Running
<1> DEFINE args == Args(fn, nargs)
           m == Pushed(<<fn>> \o args)
           a == Live
           k == Len(args)
<1>4. fn \in DOMAIN FnInfo
  BY <1>3, ProgramFns
<1>5. IsSeq(args) /\ k \in Nat /\ Callable(fn, args)
  BY <1>3, <1>4, ArgsFacts
<1>6. a + 1 + k <= FrameSize /\ RtTailCall(m, a, k, fn, args)
  BY DEF TailCall
<1> HIDE DEF args
<1>7. /\ StackOK(m) /\ m.cis = stk.cis /\ Agree(stk, m, Base(stk)) /\ Has(m, Here, fn) /\ InPlace(m, Here + 1, args)
      /\ m.last = stk.last
  <2> HIDE DEF m
  <2>1. m = Pushed(<<fn>> \o args)
    BY DEF m
  <2>2. Live + 1 + Len(args) <= FrameSize
    BY <1>6
  <2> QED BY <2>1, <2>2, <1>1, <1>3, <1>5, PushedCall
<1> HIDE DEF m
<1>8. TailReady(m, a, k, fn, args)
  <2>1. a \in Nat /\ Here = Base(stk) + a /\ k # MULTRET
    BY <1>3, <1>5 DEF Numbers, MULTRET
  <2>2. Base(stk) + a + 1 + k <= Room(m)
    <3> DEFINE b == Base(stk)
               s == FrameSize
               R == Room(stk)
    <3>1. b \in Nat /\ s \in Nat /\ a \in Nat /\ R \in Nat /\ b + s <= R /\ k \in Nat /\ a + 1 + k <= s
      BY <1>3, <1>5, <1>6 DEF Numbers
    <3>2. Room(m) = R
      BY <1>7 DEF Room
    <3> HIDE DEF a, b, k, s, R
    <3>3. b + a + 1 + k <= R
      BY <3>1
    <3> QED BY <3>2, <3>3 DEF b
  <2>3. Has(m, Base(stk) + a, fn) /\ InPlace(m, Base(stk) + a + 1, args)
    <3>1. Here = Base(stk) + a
      BY <2>1
    <3> HIDE DEF a
    <3> QED BY <1>7, <3>1
  <2>4. IF k = MULTRET THEN m.top = Base(stk) + a + 1 + Len(args) ELSE k = Len(args)
    BY <2>1
  <2> QED BY <1>4, <1>5, <1>7, <2>1, <2>2, <2>3, <2>4 DEF TailReady
<1>9. fuel' \in Nat
  BY <1>1, <1>3
<1> HIDE DEF a, k
<1> QED BY <1>1, <1>2, <1>6, <1>8, <1>9, RtTailCallKeeps

(* A tail call that takes an open list.                                    *)
LEMMA TailOpenKeeps ==
  ASSUME LoopInv, DataInv, StackHolds, TailOpen
  PROVE  DataInv' /\ (HandsOver \/ TakesOver)
<1>1. Runs("body") /\ Frame.ready /\ Frame.open >= 0 /\ fuel' = fuel /\ prog' = prog
  BY DEF TailOpen, MayLeave, Consumes
<1>2. PICK link : Running(link)
  BY <1>1, BodyFacts
<1>3. Numbers /\ StackOK(stk) /\ fuel \in Nat
  BY <1>2, RunningNumbers DEF Running
<1> DEFINE fn == Frame.regs[Frame.open + 1]
           a == Frame.open
           nargs == MULTRET
<1>4. /\ IsSeq(OpenArgs) /\ Len(OpenArgs) \in Nat
      /\ InPlace(stk, Base(stk) + a + 1, OpenArgs) /\ Has(stk, Base(stk) + a, fn) /\ Function(fn)
      /\ stk.top = Base(stk) + a + 1 + Len(OpenArgs) /\ a \in Nat
  BY <1>1, <1>3, OpenParts
<1>5. RtTailCall(stk, a, nargs, fn, OpenArgs)
  BY DEF TailOpen
<1> HIDE DEF fn, a
<1>6. fn \in DOMAIN FnInfo /\ Callable(fn, OpenArgs)
  BY <1>4 DEF Function, TakesAnything, Callable
<1>7. Base(stk) + a + 1 + Len(OpenArgs) <= Room(stk)
  BY <1>3, <1>4 DEF Numbers
<1>8. Agree(stk, stk, Base(stk))
  BY <1>3, AgreeSteps
<1>9. TailReady(stk, a, nargs, fn, OpenArgs)
  BY <1>3, <1>4, <1>6, <1>7, <1>8 DEF TailReady
<1> HIDE DEF nargs
<1> QED BY <1>1, <1>2, <1>3, <1>5, <1>9, RtTailCallKeeps

-----------------------------------------------------------------------------
(* C functions.                                                            *)

(* A C function runs.                                                      *)
Operating(link) ==
  /\ HoldsOK(stk, lua, nat, link) /\ Len(link) = Len(lua) - 1
  /\ StackOK(stk) /\ IsSeq(lua) /\ Len(lua) \in Nat \ {0} /\ IsSeq(stk.cis) /\ Len(stk.cis) = Len(lua)
  /\ IsSeq(nat) /\ Len(nat) \in Nat \ {0} /\ Last(nat) = nat[Len(nat)] /\ Last(nat).kind = "cfn"
  /\ Frame = lua[Len(lua)] /\ Last(stk.cis) = stk.cis[Len(lua)]
  /\ FrameOK(stk, Last(stk.cis), Frame) /\ OpOK(stk, Last(stk.cis), Frame)
  /\ rax = -1 /\ rep = FALSE /\ prog \in Programs /\ fuel \in Nat /\ Ordered(nat)

(* What is known where one runs.                                           *)
LEMMA CFacts ==
  ASSUME LoopInv, DataInv, StackHolds, Runs("cfn")
  PROVE  \E link : Operating(link)
<1>1. rax = -1 /\ Last(nat).kind = "cfn"
  BY DEF Runs
<1>2. /\ StackOK(stk) /\ IsSeq(lua) /\ Len(lua) \in Nat \ {0} /\ IsSeq(stk.cis) /\ Len(stk.cis) = Len(lua)
      /\ IsSeq(nat) /\ Len(nat) \in Nat \ {0} /\ Last(nat) = nat[Len(nat)]
      /\ Frame = lua[Len(lua)] /\ Last(stk.cis) = stk.cis[Len(lua)]
      /\ FrameOK(stk, Last(stk.cis), Frame) /\ prog \in Programs /\ fuel \in Nat /\ Ordered(nat)
      /\ TopOK(stk, Last(nat), Len(lua), Last(stk.cis), Frame, rax, rep)
  BY Anywhere
<1>3. PICK link : HoldsOK(stk, lua, nat, link)
  BY DEF DataInv
<1>4. nat[Len(nat)].kind \notin Helper \cup {"ctail"}
  BY <1>1, <1>2 DEF Helper
<1>5. Len(link) = Len(lua) - 1
  BY <1>3, <1>4 DEF HoldsOK
<1>6. OpOK(stk, Last(stk.cis), Frame)
  BY <1>1, <1>2 DEF TopOK
<1>7. rep = FALSE
  BY <1>1, <1>2 DEF LoopInv
<1> QED BY <1>1, <1>2, <1>3, <1>5, <1>6, <1>7 DEF Operating

(* Its place on the stack, in numbers.                                     *)
OpNumbers ==
  /\ Last(stk.cis).func \in Nat /\ Last(stk.cis).top \in Nat /\ Base(stk) = Last(stk.cis).func + 1
  /\ Base(stk) \in Nat /\ Live \in Nat /\ Live = Len(Frame.regs) /\ IsSeq(Frame.regs)
  /\ stk.top = Base(stk) + Live /\ stk.top \in Nat /\ stk.top <= Room(stk)
  /\ Room(stk) \in Nat /\ Room(stk) + 3 = stk.last + Extra /\ stk.last + Extra \in Nat
  /\ InPlace(stk, Base(stk), Frame.regs)
  /\ Frame.fn \in DOMAIN FnInfo /\ ~IsLua(Frame.fn) /\ Frame.ready /\ ~Frame.ret
  /\ FnInfo[Frame.fn].kind \in {"c", "calls", "pcall"}
  /\ DOMAIN Frame = {"fn", "regs", "extra", "open", "ready", "closed", "ret", "want"}
  /\ Low(Last(stk.cis), Frame) = Last(stk.cis).func

(* The registers of a C function end at the top.                           *)
LEMMA OperatingNumbers == ASSUME NEW link, Operating(link) PROVE OpNumbers
<1> DEFINE c == Last(stk.cis)
<1>1. Shape(c, Frame) /\ OpOK(stk, c, Frame) /\ StackOK(stk)
  BY DEF Operating, FrameOK
<1>2. /\ c.func \in Nat /\ c.top \in Nat /\ Frame.fn \in DOMAIN FnInfo /\ IsSeq(Frame.regs)
      /\ Len(Frame.regs) \in Nat
  BY <1>1, ShapeFacts
<1>3. /\ ~Frame.ret /\ ~IsLua(Frame.fn) /\ Frame.ready /\ RegsOK(stk, c, Frame) /\ stk.top = End(c, Frame)
      /\ stk.top <= Room(stk)
  BY <1>1 DEF OpOK
<1>4. ~FnInfo[Frame.fn].vararg /\ FnInfo[Frame.fn].kind \in {"c", "calls", "pcall"}
  BY <1>2, <1>3, FnFacts
<1>5. Low(c, Frame) = c.func
  BY <1>4 DEF Low, Spread
<1>6. stk.top \in Nat /\ stk.last \in Nat /\ Extra \in Nat /\ Extra >= 3
  BY <1>1, ExtraNat DEF StackOK
<1>7. Room(stk) \in Nat /\ Room(stk) + 3 = stk.last + Extra /\ stk.last + Extra \in Nat
  <2> DEFINE l == stk.last
  <2>1. l \in Nat /\ Extra \in Nat /\ Extra >= 3
    BY <1>6
  <2>2. Room(stk) = l + Extra - 3
    BY DEF Room
  <2> HIDE DEF l
  <2>3. Room(stk) \in Nat /\ Room(stk) + 3 = l + Extra /\ l + Extra \in Nat
    BY <2>1, <2>2
  <2> QED BY <2>3 DEF l
<1>8. Base(stk) = c.func + 1
  BY DEF Base
<1>9. Base(stk) \in Nat /\ Live = Len(Frame.regs) /\ stk.top = Base(stk) + Live /\ InPlace(stk, Base(stk), Frame.regs)
  BY <1>2, <1>3, <1>8 DEF Live, End, RegsOK
<1>10. DOMAIN Frame = {"fn", "regs", "extra", "open", "ready", "closed", "ret", "want"}
  BY <1>1 DEF Shape
<1> QED BY <1>2, <1>3, <1>4, <1>5, <1>6, <1>7, <1>8, <1>9, <1>10 DEF OpNumbers

(* The first value of a list, and the rest.                                *)
LEMMA HeadTail ==
  ASSUME NEW s, IsSeq(s), Len(s) >= 1
  PROVE  /\ IsSeq(Tail(s)) /\ Len(Tail(s)) = Len(s) - 1 /\ s = <<s[1]>> \o Tail(s)
<1>1. PICK S : s \in Seq(S)
  BY DEF IsSeq
<1>2. s # <<>>
  OBVIOUS
<1>3. Tail(s) \in Seq(S) /\ Len(Tail(s)) = Len(s) - 1 /\ \A i \in 1..(Len(s) - 1) : Tail(s)[i] = s[i + 1]
  BY <1>1, <1>2
<1>4. IsSeq(Tail(s))
  BY <1>3 DEF IsSeq
<1> DEFINE h == <<s[1]>>
           t == Tail(s)
<1>5. IsSeq(h) /\ Len(h) = 1 /\ h[1] = s[1]
  BY Singles
<1>6. IsSeq(t) /\ Len(t) = Len(s) - 1 /\ Len(s) \in Nat /\ \A i \in 1..(Len(s) - 1) : t[i] = s[i + 1]
  BY <1>3, <1>4, SeqFacts
<1> HIDE DEF h, t
<1>7. IsSeq(h \o t) /\ Len(h \o t) = Len(h) + Len(t) /\ (h \o t)[1] = s[1]
      /\ \A i \in 1..(Len(h) + Len(t)) : i > Len(h) => (h \o t)[i] = t[i - Len(h)]
  <2>1. \A i \in 1..Len(h) : (h \o t)[i] = h[i]
    BY <1>5, <1>6, Joined
  <2>2. 1 \in 1..Len(h)
    BY <1>5
  <2>3. IsSeq(h \o t) /\ Len(h \o t) = Len(h) + Len(t)
        /\ \A i \in 1..(Len(h) + Len(t)) : i > Len(h) => (h \o t)[i] = t[i - Len(h)]
    BY <1>5, <1>6, Joined, ZenonT(60)
  <2> QED BY <1>5, <2>1, <2>2, <2>3
<1>8. Len(h \o t) = Len(s)
  BY <1>5, <1>6, <1>7
<1>9. \A i \in 1..Len(s) : (h \o t)[i] = s[i]
  <2> TAKE i \in 1..Len(s)
  <2>1. CASE i = 1
    BY <2>1, <1>7
  <2>2. CASE i # 1
    <3>1. i > Len(h) /\ i \in 1..(Len(h) + Len(t)) /\ i - Len(h) = i - 1
      BY <2>2, <1>5, <1>6
    <3>2. (h \o t)[i] = t[i - 1]
      BY <3>1, <1>7
    <3>3. i - 1 \in 1..(Len(s) - 1) /\ (i - 1) + 1 = i
      BY <2>2, <1>6
    <3>4. t[i - 1] = s[i]
      BY <3>3, <1>6
    <3> QED BY <3>2, <3>4
  <2> QED BY <2>1, <2>2
<1>10. h \o t = s
  BY <1>7, <1>8, <1>9, SameElements
<1> QED BY <1>6, <1>10 DEF h, t

(* The frame of a C function that calls.                                   *)
CWaits(f, f1, kept) ==
  /\ DOMAIN f1 = {"fn", "regs", "extra", "open", "ready", "closed", "ret", "want"}
  /\ f1.fn = f.fn /\ f1.extra = f.extra /\ f1.ready = f.ready /\ f1.ret = f.ret /\ f1.closed = f.closed
  /\ f1.regs = kept /\ f1.open = 0 /\ f1.want = [pre |-> kept, n |-> -1, post |-> <<>>]

(* It is a frame.                                                          *)
LEMMA CWaitsFrame ==
  ASSUME NEW link, Operating(link), FnInfo[Frame.fn].kind # "c", NEW kept, IsSeq(kept), NEW f1, CWaits(Frame, f1, kept),
         NEW m, StackOK(m), Agree(stk, m, Base(stk)), InPlace(m, Base(stk), kept),
         NEW func, func = Base(stk) + Len(kept)
  PROVE  /\ FrameOK(m, Last(stk.cis), f1) /\ RegsOK(m, Last(stk.cis), f1) /\ End(Last(stk.cis), f1) = func
         /\ Low(Last(stk.cis), f1) = Last(stk.cis).func
<1> DEFINE c == Last(stk.cis)
<1>1. OpNumbers /\ Shape(c, Frame) /\ Placed(stk, c, Frame) /\ StackOK(stk)
  BY OperatingNumbers DEF Operating, FrameOK
<1>2. /\ f1.fn \in DOMAIN FnInfo /\ ~IsLua(f1.fn) /\ f1.ready /\ ~f1.ret /\ f1.regs = kept /\ f1.open = 0
      /\ f1.fn = Frame.fn
  BY <1>1 DEF OpNumbers, CWaits
<1>3. ~FnInfo[f1.fn].vararg
  BY <1>2, FnFacts
<1>4. ~Spread(f1) /\ ~Spread(Frame)
  BY <1>2, <1>3 DEF Spread
<1>5. Low(c, f1) = c.func /\ c.func \in Nat /\ InfoOK(c) /\ f1.extra = <<>> /\ IsSeq(f1.extra)
  BY <1>1, <1>4, Singles DEF Low, Shape, CWaits, OpNumbers
<1>6. Shape(c, f1)
  <2>1. /\ DOMAIN f1 = {"fn", "regs", "extra", "open", "ready", "closed", "ret", "want"}
        /\ f1.ready \in BOOLEAN /\ f1.closed \in BOOLEAN /\ f1.ret \in BOOLEAN
    BY <1>1 DEF CWaits, Shape
  <2> QED BY <2>1, <1>2, <1>4, <1>5 DEF Shape
<1>7. Has(m, c.func, f1.fn)
  <2>1. Has(stk, c.func, Frame.fn)
    BY <1>1 DEF Placed, OpNumbers
  <2>2. Base(stk) \in Int /\ c.func < Base(stk)
    BY <1>1 DEF OpNumbers
  <2> QED BY <2>1, <2>2, <1>1, <1>2, HasStays
<1>8. FrameOK(m, c, f1)
  BY <1>4, <1>6, <1>7 DEF FrameOK, Placed
<1>9. RegsOK(m, c, f1) /\ End(c, f1) = func
  BY <1>2 DEF RegsOK, End, Base
<1> QED BY <1>5, <1>8, <1>9

(* It serves itself: what it has noted of its call.                        *)
LEMMA CWaitsDeal ==
  ASSUME NEW link, Operating(link), FnInfo[Frame.fn].kind # "c", NEW kept, IsSeq(kept), NEW f1, CWaits(Frame, f1, kept),
         kept = IF FnInfo[Frame.fn].kind = "pcall" THEN <<yes>> ELSE <<>>,
         Frame.open = -1, Live >= 1,
         NEW func, func = Base(stk) + Len(kept),
         NEW x, x.kind = FnInfo[Frame.fn].kind, x.a = Len(lua), x.n = func, NEW m
  PROVE  /\ DealOK(m, x, Len(lua), Last(stk.cis), f1) /\ WaitOK(m, x, Last(stk.cis), f1, -1, func)
<1> DEFINE c == Last(stk.cis)
           kind == FnInfo[Frame.fn].kind
           n == -1
<1>1. OpNumbers
  BY OperatingNumbers
<1>2. /\ f1.fn = Frame.fn /\ ~IsLua(f1.fn) /\ f1.ready /\ ~f1.ret /\ f1.regs = kept /\ f1.open = 0
      /\ f1.want.pre = kept /\ f1.want.n = -1 /\ f1.want.post = <<>> /\ IsSeq(f1.want.post)
      /\ kind \in {"calls", "pcall"}
  BY <1>1, Singles DEF CWaits, OpNumbers
<1>3. func = c.func + 1 + Len(kept)
  BY DEF Base
<1>4. kind = "pcall" => func + 3 <= c.top
  <2> SUFFICES ASSUME kind = "pcall" PROVE func + 3 <= c.top
    OBVIOUS
  <2>1. stk.top + 3 <= c.top
    BY DEF Operating, OpOK
  <2>2. Len(kept) = 1
    BY Singles
  <2> DEFINE b == Base(stk)
             t == stk.top
             u == c.top
             l == Live
  <2>3. t + 3 <= u /\ t = b + l /\ l \in Nat /\ l >= 1 /\ b \in Nat /\ u \in Nat /\ func = b + 1
    BY <1>1, <2>1, <2>2 DEF OpNumbers
  <2> HIDE DEF b, t, u, l
  <2>4. func + 3 <= u
    BY <2>3
  <2> QED BY <2>4 DEF u
<1>5. kind = "calls" => kept = <<>>
  OBVIOUS
<1>6. kind = "pcall" => kept = <<yes>>
  OBVIOUS
<1>7. DealOK(m, x, Len(lua), c, f1)
  BY <1>2, <1>3, <1>4, <1>5, <1>6 DEF DealOK, Server, Helper
<1>8. WaitOK(m, x, c, f1, n, func)
  BY <1>2, <1>3 DEF WaitOK
<1> QED BY <1>7, <1>8

(* A C function calls the function it was given.                           *)
LEMMA CCallsKeeps ==
  ASSUME LoopInv, DataInv, StackHolds, CCalls
  PROVE  DataInv' /\ HandsOver
<1>1. Runs("cfn") /\ FnInfo[Frame.fn].kind # "c" /\ Frame.open = -1
  BY DEF CCalls
<1>2. PICK link : Operating(link)
  BY <1>1, CFacts
<1>3. OpNumbers /\ StackOK(stk) /\ rax = -1 /\ rep = FALSE /\ prog \in Programs /\ fuel \in Nat
      /\ HoldsOK(stk, lua, nat, link) /\ Len(link) = Len(lua) - 1 /\ IsSeq(nat)
      /\ Frame = lua[Len(lua)] /\ Last(stk.cis) = stk.cis[Len(lua)] /\ Len(stk.cis) = Len(lua)
      /\ Shape(Last(stk.cis), Frame)
  BY <1>2, OperatingNumbers DEF Operating, FrameOK
<1> DEFINE kind == IF FnInfo[Frame.fn].kind = "pcall" THEN "pcall" ELSE "calls"
           kept == IF kind = "pcall" THEN <<yes>> ELSE <<>>
           b == Base(stk)
           k == Len(kept)
           func == b + k
           p == Put(stk, b, kept \o Frame.regs)
           t == stk.top + k
           m == Topped(p, t)
           n == MULTRET
           f1 == [Waits(kept, kept, n, <<>>) EXCEPT !.open = 0]
           x == Act(kind, Len(stk.cis), func)
           fn == Frame.regs[1]
           args == Tail(Frame.regs)
<1>4. /\ LuaDCall(m, func, n, Append(nat, x), f1, args)
      /\ rax' = rax /\ rep' = rep /\ fuel' = fuel /\ prog' = prog
  BY DEF CCalls
<1>5. kind = FnInfo[Frame.fn].kind
  BY <1>1, <1>3 DEF OpNumbers
<1>6. IsSeq(kept) /\ k \in Nat /\ k <= 1
  BY Singles
<1>7. Live >= 1 /\ Function(fn) /\ Live = Len(Frame.regs) /\ IsSeq(Frame.regs)
  <2>1. Len(Frame.regs) >= 1 /\ Function(Frame.regs[1])
    BY <1>1, <1>3 DEF Shape, OpNumbers
  <2> QED BY <2>1, <1>3 DEF OpNumbers
<1>8. fn \in DOMAIN FnInfo /\ Callable(fn, args)
  BY <1>7 DEF Function, TakesAnything, Callable
<1>9. IsSeq(args) /\ Len(args) = Live - 1 /\ Frame.regs = <<fn>> \o args
  BY <1>7, HeadTail
<1>10. CWaits(Frame, f1, kept)
  <2>1. DOMAIN Frame = {"fn", "regs", "extra", "open", "ready", "closed", "ret", "want"}
    BY <1>3 DEF OpNumbers
  <2> QED BY <2>1 DEF Waits, CWaits, MULTRET
<1>11. x.kind = kind /\ x.a = Len(lua) /\ x.n = func
  BY <1>3 DEF Act
<1>12. kept = IF FnInfo[Frame.fn].kind = "pcall" THEN <<yes>> ELSE <<>>
  BY <1>5
<1> HIDE DEF f1, x, kind, fn, args
<1> DEFINE regs == Frame.regs
           vs == kept \o regs
<1>13. IsSeq(regs) /\ IsSeq(vs) /\ Len(vs) = k + Live
  <2> HIDE DEF kept
  <2>1. IsSeq(regs) /\ Len(regs) = Live
    BY <1>7
  <2> HIDE DEF regs
  <2> QED BY <2>1, <1>6, Joined
<1> HIDE DEF kept
<1>14. b \in Nat /\ k \in Nat /\ func \in Nat /\ t \in Nat /\ t = func + Live /\ t <= stk.last + Extra /\ b + Len(vs) = t
       /\ b <= func
  <2> DEFINE top == stk.top
             L == Live
             R == Room(stk)
             e == stk.last + Extra
             y == Len(vs)
  <2>1. b \in Nat /\ k \in Nat /\ k <= 1 /\ L \in Nat /\ top = b + L /\ top <= R /\ R \in Nat /\ R + 3 = e /\ y = k + L
    BY <1>3, <1>6, <1>13 DEF OpNumbers
  <2> HIDE DEF b, k, top, L, R, e, y
  <2>2. func \in Nat /\ top + k \in Nat /\ top + k = func + L /\ top + k <= e /\ b + y = top + k /\ b <= func
    BY <2>1
  <2> QED BY <2>1, <2>2 DEF top, L, e, y
<1>15. /\ StackOK(p) /\ p.cis = stk.cis /\ InPlace(p, b, vs) /\ Agree(stk, p, b)
  <2> HIDE DEF vs, p
  <2>1. p = Put(stk, b, vs)
    BY DEF p, vs
  <2>2. b + Len(vs) <= stk.last + Extra
    BY <1>14
  <2> HIDE DEF b
  <2> QED BY <2>1, <2>2, <1>3, <1>13, <1>14, PutDoes
<1> HIDE DEF p
<1>16. SameSlots(p, m) /\ m.top = t /\ m.cis = p.cis
  <2> HIDE DEF t
  <2> QED BY <1>14, <1>15, ToppedDoes
<1>17. StackOK(m) /\ m.cis = stk.cis
  BY <1>15, <1>16 DEF SameSlots
<1> HIDE DEF m
<1>18. InPlace(m, b, vs) /\ Agree(stk, m, b)
  <2>1. InPlace(m, b, vs) /\ Agree(p, m, b)
    BY <1>15, <1>16, SlotsKept
  <2>2. b \in Int
    BY <1>14
  <2> QED BY <2>1, <2>2, <1>3, <1>15, AgreeSteps
<1> HIDE DEF b, func, t
<1>19. InPlace(m, b, kept) /\ InPlace(m, func, regs)
  <2> HIDE DEF regs
  <2>1. InPlace(m, b, kept) /\ InPlace(m, b + Len(kept), regs)
    BY <1>6, <1>13, <1>17, <1>18, InPlaceJoined DEF vs
  <2> QED BY <2>1 DEF func
<1> HIDE DEF vs
<1>20. Has(m, func, fn) /\ InPlace(m, func + 1, args)
  <2> DEFINE h == <<fn>>
  <2>1. IsSeq(h) /\ Len(h) = 1
    BY Singles
  <2>2. InPlace(m, func, h \o args)
    BY <1>9, <1>19
  <2>3. InPlace(m, func, h) /\ InPlace(m, func + Len(h), args)
    <3> HIDE DEF h
    <3> QED BY <2>1, <2>2, <1>9, <1>17, InPlaceJoined
  <2>4. Has(m, func, fn)
    BY <2>3, <1>17, HasOne
  <2> HIDE DEF h
  <2> QED BY <2>1, <2>3, <2>4
<1>21. Ready(m, func, fn, args)
  <2>1. m.top = func + 1 + Len(args)
    <3> DEFINE L == Live
    <3>1. m.top = func + L /\ Len(args) = L - 1 /\ L \in Nat /\ func \in Nat
      BY <1>9, <1>14, <1>16, <1>3 DEF OpNumbers
    <3> HIDE DEF L
    <3> QED BY <3>1
  <2> QED BY <2>1, <1>8, <1>9, <1>14, <1>17, <1>20 DEF Ready
<1>22. /\ FrameOK(m, Last(stk.cis), f1) /\ RegsOK(m, Last(stk.cis), f1) /\ End(Last(stk.cis), f1) = func
       /\ Low(Last(stk.cis), f1) = Last(stk.cis).func
  <2>1. func = Base(stk) + Len(kept) /\ Agree(stk, m, Base(stk)) /\ InPlace(m, Base(stk), kept)
    BY <1>18, <1>19 DEF b, func
  <2> QED BY <2>1, <1>1, <1>2, <1>6, <1>10, <1>17, CWaitsFrame
<1>23. n = -1 /\ n \in Int /\ n >= -1
  BY DEF MULTRET
<1>24. DealOK(m, x, Len(lua), Last(stk.cis), f1) /\ WaitOK(m, x, Last(stk.cis), f1, n, func)
  <2>1. func = Base(stk) + Len(kept) /\ x.kind = FnInfo[Frame.fn].kind
    BY <1>5, <1>11 DEF b, func
  <2>2. DealOK(m, x, Len(lua), Last(stk.cis), f1) /\ WaitOK(m, x, Last(stk.cis), f1, -1, func)
    BY <2>1, <1>1, <1>2, <1>6, <1>7, <1>10, <1>11, <1>12, CWaitsDeal
  <2> QED BY <2>2, <1>23
<1> HIDE DEF n
<1>25. OneOK(m, x, Len(lua), Last(stk.cis), f1, n, func)
  <2>1. func <= func
    BY <1>14
  <2> QED BY <2>1, <1>22, <1>24 DEF OneOK
<1>26. Handed(m, func, n, nat, x, f1, fn, args) /\ Exact(stk', func, fn)
  BY <1>3, <1>4, <1>21, <1>23, LuaDCalls
<1>27. /\ Agree(stk, m, Low(stk.cis[Len(lua)], lua[Len(lua)]))
       /\ Low(stk.cis[Len(lua)], f1) = Low(stk.cis[Len(lua)], lua[Len(lua)])
       /\ OneOK(m, x, Len(lua), stk.cis[Len(lua)], f1, n, func)
  <2>1. Low(stk.cis[Len(lua)], lua[Len(lua)]) = Last(stk.cis).func
    BY <1>3 DEF OpNumbers
  <2>2. Agree(stk, m, Last(stk.cis).func)
    <3>1. Last(stk.cis).func \in Int /\ b \in Int /\ Last(stk.cis).func <= b
      BY <1>3, <1>14, SMTT(30) DEF OpNumbers, b
    <3> QED BY <3>1, <1>3, <1>18, AgreeBelow
  <2> QED BY <2>1, <2>2, <1>3, <1>22, <1>25
<1>28. rax' = -1 /\ rep' = FALSE /\ fuel' \in Nat /\ prog' = prog
  BY <1>3, <1>4
<1>29. Serving(nat, link) /\ \A j \in 1..Len(link) : nat[link[j]] = nat[link[j]]
  BY <1>3 DEF HoldsOK
<1>30. DataInv'
  BY <1>3, <1>8, <1>17, <1>21, <1>26, <1>27, <1>28, <1>29, CallKeeps
<1>31. HandsOver
  <2>1. stk.last <= m.last /\ nat = nat
    BY <1>18 DEF Agree
  <2>2. x.kind # "tfor"
    BY <1>11 DEF kind
  <2>3. OpenFine(f1)
    <3>1. ~IsLua(f1.fn)
      BY <1>3, <1>10 DEF OpNumbers, CWaits
    <3> QED BY <3>1 DEF OpenFine
  <2> QED BY <1>17, <1>21, <1>26, <2>1, <2>2, <2>3 DEF HandsOver
<1> QED BY <1>30, <1>31

-----------------------------------------------------------------------------
(* Coming back.                                                            *)

(* Everything above frame l is gone, and that frame has become what gs     *)
(* says.                                                                   *)
CutStep(link, l, g, gs, os, to) ==
  /\ HoldsOK(stk, lua, nat, link) /\ l \in 1..(Len(lua) - 1)
  /\ IsSeq(g.cis) /\ Len(g.cis) = l /\ \A j \in 1..l : g.cis[j] = stk.cis[j]
  /\ IsSeq(gs) /\ Len(gs) = l /\ \A j \in 1..(l - 1) : gs[j] = lua[j]
  /\ Agree(stk, g, Low(stk.cis[l], lua[l]))
  /\ FrameOK(g, stk.cis[l], gs[l]) /\ Low(stk.cis[l], gs[l]) = Low(stk.cis[l], lua[l])
  /\ Serving(os, to)
  /\ Len(to) = IF os[Len(os)].kind \in Helper \cup {"ctail"} THEN l ELSE l - 1
  /\ \A j \in 1..(l - 1) : os[to[j]] = nat[link[j]]

(* The frames below are what they were.                                    *)
LEMMA HoldsCut ==
  ASSUME NEW link, NEW l, NEW g, NEW gs, NEW os, NEW to, CutStep(link, l, g, gs, os, to)
  PROVE  HoldsOK(g, gs, os, to)
<1> DEFINE cs == stk.cis
           K == Len(lua)
           low == Low(cs[l], lua[l])
           n == cs[l].n
<1>1. /\ HoldsOK(stk, lua, nat, link) /\ StackOK(stk) /\ l \in 1..(K - 1) /\ IsSeq(lua) /\ K \in Nat
      /\ LowerOK(stk, cs, lua, nat, link, K, cs[K].n, Low(cs[K], lua[K]))
  BY SeqFacts DEF CutStep, HoldsOK
<1>2. K \in Nat \ {0} /\ l \in Nat \ {0} /\ l >= 1
  BY <1>1
<1> HIDE DEF K
<1>3. LowerOK(stk, cs, lua, nat, link, l, n, low) /\ FrameOK(stk, cs[l], lua[l])
  <2> DEFINE nk == cs[K].n
             lk == Low(cs[K], lua[K])
  <2>1. LowerOK(stk, cs, lua, nat, link, K, nk, lk)
    BY <1>1
  <2> HIDE DEF nk, lk
  <2> QED BY <2>1, <1>1, <1>2, LowerLess
<1>4. low \in Nat /\ low \in Int
  BY <1>3, ShapeFacts DEF FrameOK
<1> HIDE DEF low, n
<1>5. Agree(stk, g, low)
  BY DEF CutStep, low
<1>6. \A j \in 1..(l - 1) : g.cis[j] = cs[j] /\ gs[j] = lua[j] /\ os[to[j]] = nat[link[j]]
  <2>1. \A j \in 1..(l - 1) : j \in 1..l
    BY <1>2
  <2> QED BY <2>1 DEF CutStep
<1>7. LowerOK(g, g.cis, gs, os, to, l, n, low)
  <2> DEFINE ds == g.cis
  <2>1. \A j \in 1..(l - 1) : ds[j] = cs[j] /\ gs[j] = lua[j] /\ os[to[j]] = nat[link[j]]
    BY <1>6
  <2>2. StackOK(stk) /\ l \in Nat \ {0} /\ low \in Int /\ LowerOK(stk, cs, lua, nat, link, l, n, low)
        /\ Agree(stk, g, low)
    BY <1>1, <1>2, <1>3, <1>4, <1>5
  <2> HIDE DEF ds, cs
  <2>3. LowerOK(g, ds, gs, os, to, l, n, low)
    BY <2>1, <2>2, LowerUp, SMTT(30)
  <2> QED BY <2>3 DEF ds
<1>8. g.cis[l] = cs[l] /\ l \in 1..l
  BY <1>2 DEF CutStep
<1>9. n = g.cis[l].n /\ low = Low(g.cis[l], gs[l])
  BY <1>8 DEF n, low, CutStep
<1>10. LowerOK(g, g.cis, gs, os, to, Len(gs), g.cis[Len(gs)].n, Low(g.cis[Len(gs)], gs[Len(gs)]))
  <2>1. Len(gs) = l
    BY DEF CutStep
  <2> QED BY <2>1, <1>7, <1>9
<1>11. /\ StackOK(g) /\ IsSeq(g.cis) /\ IsSeq(gs) /\ Len(gs) >= 1 /\ Len(g.cis) = Len(gs)
       /\ Serving(os, to)
       /\ Len(to) = IF os[Len(os)].kind \in Helper \cup {"ctail"} THEN Len(gs) ELSE Len(gs) - 1
       /\ FrameOK(g, g.cis[Len(gs)], gs[Len(gs)])
  <2>1. Len(gs) = l /\ Len(g.cis) = l
    BY DEF CutStep
  <2>2. StackOK(g)
    BY <1>5 DEF Agree
  <2>3. IsSeq(g.cis) /\ IsSeq(gs) /\ Serving(os, to) /\ FrameOK(g, stk.cis[l], gs[l])
        /\ Len(to) = IF os[Len(os)].kind \in Helper \cup {"ctail"} THEN l ELSE l - 1
    BY DEF CutStep
  <2> QED BY <2>1, <2>2, <2>3, <1>2, <1>8
<1> QED BY <1>10, <1>11 DEF HoldsOK

(* The frame that waits for the one on top.                                *)
LEMMA Beneath ==
  ASSUME LoopInv, DataInv, StackHolds, NEW link, HoldsOK(stk, lua, nat, link), NEW k, k = Len(lua) - 1, k >= 1
  PROVE  /\ OneOK(stk, nat[link[k]], k, stk.cis[k], lua[k], Last(stk.cis).n, Low(Last(stk.cis), Frame))
         /\ stk.cis[k].top <= Room(stk) /\ Low(Last(stk.cis), Frame) \in Nat /\ k \in Nat \ {0}
         /\ Last(stk.cis).n \in Int /\ Last(stk.cis).n >= -1
<1> DEFINE cs == stk.cis
           K == Len(lua)
<1>1. /\ StackOK(stk) /\ IsSeq(lua) /\ K \in Nat \ {0} /\ IsSeq(cs) /\ Len(cs) = K
      /\ Frame = lua[K] /\ Last(cs) = cs[K] /\ FrameOK(stk, Last(cs), Frame)
  BY Anywhere
<1>2. LowerOK(stk, cs, lua, nat, link, K, cs[K].n, Low(cs[K], lua[K]))
  BY DEF HoldsOK
<1> HIDE DEF K
<1>3. k \in 1..(K - 1) /\ k = K - 1 /\ k \in Nat \ {0} /\ k \in 1..K
  BY <1>1 DEF K
<1>4. OneOK(stk, nat[link[k]], k, cs[k], lua[k], cs[K].n, Low(cs[K], lua[K]))
  <2> DEFINE nk == cs[K].n
             lk == Low(cs[K], lua[K])
  <2>1. LowerOK(stk, cs, lua, nat, link, K, nk, lk)
    BY <1>2
  <2> HIDE DEF nk, lk
  <2>2. OneOK(stk, nat[link[k]], k, cs[k], lua[k], nk, lk)
    BY <2>1, <1>1, <1>3, LowerLess
  <2> QED BY <2>2 DEF nk, lk
<1>5. stk.cis[k].top <= Room(stk)
  <2>1. k \in 1..Len(stk.cis)
    BY <1>1, <1>3
  <2> QED BY <2>1 DEF StackHolds, Ceilings, Room
<1>6. Low(Last(stk.cis), Frame) \in Nat /\ Last(stk.cis).n \in Int /\ Last(stk.cis).n >= -1
  BY <1>1, ShapeFacts DEF FrameOK
<1> QED BY <1>1, <1>3, <1>4, <1>5, <1>6

(* The results vs of a callee, adjusted to what frame f wants, are written *)
(* where the callee was.                                                   *)
Delivery(m, x, j, c, f, n, low, vs, g, f1) ==
  /\ StackOK(m) /\ OneOK(m, x, j, c, f, n, low) /\ c.top <= Room(m) /\ low \in Nat
  /\ IsSeq(vs) /\ low + Len(vs) <= Room(m)
  /\ Agree(m, g, low) /\ InPlace(g, low, Adjusted(vs, n)) /\ g.top = low + Len(Adjusted(vs, n))
  /\ DOMAIN f1 = DOMAIN f /\ f1.fn = f.fn /\ f1.extra = f.extra /\ f1.ready = f.ready /\ f1.ret = f.ret
  /\ f1.closed = f.closed /\ f1.open = f.open /\ f1.want = f.want
  /\ f1.regs = f.want.pre \o Adjusted(vs, n) \o f.want.post

(* What there is to know of it, in numbers.                                *)
Values(m, x, c, f, n, low, adj, g, f1) ==
  /\ StackOK(m) /\ StackOK(g) /\ m.last \in Nat /\ g.last \in Nat /\ m.last <= g.last
  /\ Shape(c, f) /\ Placed(m, c, f) /\ RegsOK(m, c, f) /\ c.func \in Nat /\ c.func + 1 \in Nat /\ low \in Nat
  /\ c.func + 1 + Len(f.regs) <= low /\ Len(f.regs) \in Nat /\ IsSeq(f.regs)
  /\ IsSeq(f.want.pre) /\ Len(f.want.pre) \in Nat /\ IsSeq(f.want.post) /\ Len(f.want.post) \in Nat
  /\ IsSeq(adj) /\ Len(adj) \in Nat /\ n = f.want.n /\ n \in Int /\ n >= -1 /\ (n >= 0 => Len(adj) = n)
  /\ f.ready /\ ~f.ret /\ x.kind \in Server /\ Room(m) \in Int /\ Room(g) \in Int /\ Room(m) <= Room(g)
  /\ IsSeq(f1.regs) /\ Len(f1.regs) = Len(f.want.pre) + Len(adj) + Len(f.want.post)
  /\ f.want.post = <<>> => f1.regs = f.want.pre \o adj
  /\ g.top \in Nat /\ g.top = low + Len(adj)

(* They follow.                                                            *)
LEMMA DeliveryValues ==
  ASSUME NEW m, NEW x, NEW j, NEW c, NEW f, NEW n, NEW low, NEW vs, NEW g, NEW f1,
         Delivery(m, x, j, c, f, n, low, vs, g, f1)
  PROVE  Values(m, x, c, f, n, low, Adjusted(vs, n), g, f1)
<1> DEFINE adj == Adjusted(vs, n)
           pre == f.want.pre
           post == f.want.post
<1>1. /\ StackOK(m) /\ OneOK(m, x, j, c, f, n, low) /\ low \in Nat /\ IsSeq(vs)
      /\ Agree(m, g, low) /\ InPlace(g, low, adj) /\ g.top = low + Len(adj)
      /\ f1.regs = pre \o adj \o post
  BY DEF Delivery
<1>2. FrameOK(m, c, f) /\ RegsOK(m, c, f) /\ End(c, f) <= low /\ DealOK(m, x, j, c, f) /\ WaitOK(m, x, c, f, n, low)
  BY <1>1 DEF OneOK
<1>3. Shape(c, f) /\ Placed(m, c, f)
  BY <1>2 DEF FrameOK
<1>4. c.func \in Nat /\ IsSeq(f.regs) /\ Len(f.regs) \in Nat
  BY <1>3, ShapeFacts
<1>5. StackOK(g) /\ m.last <= g.last /\ m.last \in Nat /\ g.last \in Nat /\ Extra \in Nat
  BY <1>1, ExtraNat DEF Agree, StackOK
<1>6. IsSeq(pre) /\ IsSeq(post) /\ f.ready /\ ~f.ret /\ x.kind \in Server
      /\ f.want.n \in Int /\ f.want.n >= -1
  BY <1>2 DEF DealOK
<1>7. n = f.want.n
  BY <1>2 DEF WaitOK
<1>8. Len(pre) \in Nat /\ Len(post) \in Nat
  BY <1>6, SeqFacts
<1>9. IsSeq(adj) /\ Len(adj) = (IF n = MULTRET THEN Len(vs) ELSE n) /\ Len(vs) \in Nat
  <2>1. n \in Int /\ n >= -1
    BY <1>6, <1>7
  <2>2. Len(vs) \in Nat
    BY <1>1, SeqFacts
  <2> QED BY <2>1, <2>2, <1>1, AdjustedSeq
<1>10. Len(adj) \in Nat /\ (n >= 0 => Len(adj) = n)
  BY <1>6, <1>7, <1>9 DEF MULTRET
<1> HIDE DEF adj, pre, post
<1>11. IsSeq(pre \o adj) /\ Len(pre \o adj) = Len(pre) + Len(adj)
  BY <1>6, <1>9, Joined
<1> DEFINE h == pre \o adj
<1>12. /\ IsSeq(h \o post) /\ Len(h \o post) = Len(h) + Len(post)
       /\ Len(post) = 0 => h \o post = h
  <2>1. IsSeq(h)
    BY <1>11
  <2> HIDE DEF h
  <2> QED BY <2>1, <1>6, Joined
<1>13. post = <<>> => Len(post) = 0
  BY Singles
<1>14. f1.regs = h \o post
  BY <1>1
<1>15. Room(m) \in Int /\ Room(g) \in Int /\ Room(m) <= Room(g)
  <2> DEFINE a == m.last
             b == g.last
  <2>1. a \in Nat /\ b \in Nat /\ a <= b /\ Extra \in Nat
    BY <1>5
  <2>2. Room(m) = a + Extra - 3 /\ Room(g) = b + Extra - 3
    BY DEF Room
  <2> HIDE DEF a, b
  <2> QED BY <2>1, <2>2
<1>16. g.top \in Nat /\ g.top = low + Len(adj)
  BY <1>1, <1>10
<1>17. c.func + 1 + Len(f.regs) <= low /\ c.func + 1 \in Nat
  BY <1>2, <1>4 DEF End
<1>18. IsSeq(f1.regs) /\ Len(f1.regs) = Len(pre) + Len(adj) + Len(post) /\ (post = <<>> => f1.regs = pre \o adj)
  BY <1>11, <1>12, <1>13, <1>14
<1> QED BY <1>1, <1>2, <1>3, <1>4, <1>5, <1>6, <1>7, <1>8, <1>9, <1>10, <1>15, <1>16, <1>17, <1>18
        DEF Values, pre, post, adj

(* The frame has what it wants.                                            *)
LEMMA DeliveredFrame ==
  ASSUME NEW m, NEW x, NEW j, NEW c, NEW f, NEW n, NEW low, NEW vs, NEW g, NEW f1,
         Delivery(m, x, j, c, f, n, low, vs, g, f1)
  PROVE  FrameOK(g, c, f1) /\ Low(c, f1) = Low(c, f) /\ DealOK(g, x, j, c, f1) /\ Low(c, f) \in Nat /\ Low(c, f) <= low
<1> DEFINE adj == Adjusted(vs, n)
<1>1. Values(m, x, c, f, n, low, adj, g, f1)
  BY DeliveryValues
<1> HIDE DEF adj
<1>2. /\ DOMAIN f1 = DOMAIN f /\ f1.fn = f.fn /\ f1.extra = f.extra /\ f1.ready = f.ready /\ f1.ret = f.ret
      /\ f1.closed = f.closed /\ f1.open = f.open /\ f1.want = f.want
  BY DEF Delivery
<1>3. DealOK(m, x, j, c, f) /\ WaitOK(m, x, c, f, n, low)
  BY DEF Delivery, OneOK
<1>4. /\ Shape(c, f) /\ Placed(m, c, f) /\ IsSeq(f1.regs) /\ f.ready /\ ~f.ret /\ x.kind \in Server
      /\ Len(f1.regs) = Len(f.want.pre) + Len(adj) + Len(f.want.post)
      /\ Len(f.want.pre) \in Nat /\ Len(f.want.post) \in Nat /\ Len(adj) \in Nat /\ Len(f.regs) \in Nat
      /\ IsSeq(f.want.pre) /\ IsSeq(adj)
      /\ f.want.post = <<>> => f1.regs = f.want.pre \o adj
      /\ StackOK(m) /\ low \in Nat /\ c.func + 1 + Len(f.regs) <= low /\ c.func \in Nat
  BY <1>1 DEF Values
<1>5. Low(c, f1) = Low(c, f) /\ (Spread(f1) <=> Spread(f))
  BY <1>2 DEF Low, Spread
<1>6. f.open \in Int /\ f.fn \in DOMAIN FnInfo /\ Low(c, f) \in Nat /\ Low(c, f) <= c.func
  BY <1>4, ShapeFacts
<1>7. ASSUME f.open >= 0, IsLua(f.fn)
      PROVE  f.open + 1 <= Len(f1.regs) /\ f1.regs[f.open + 1] = f.regs[f.open + 1]
  <2>1. f.open + 1 <= Len(f.regs)
    BY <1>4, <1>7 DEF Shape
  <2>2. x.kind # "meta"
    <3>1. f.open # -1
      BY <1>6, <1>7
    <3> QED BY <3>1, <1>3 DEF DealOK
  <2>3. f.regs = f.want.pre /\ f1.regs = f.want.pre \o adj
    BY <2>2, <1>3, <1>4 DEF DealOK, WaitOK
  <2> DEFINE pre == f.want.pre
             i == f.open + 1
             l == Len(pre)
             a == Len(adj)
  <2>4. i \in 1..l /\ l \in Nat /\ a \in Nat
    BY <2>1, <2>3, <1>4, <1>6, <1>7
  <2>5. IsSeq(pre) /\ IsSeq(adj) /\ i \in 1..Len(pre)
    BY <2>4, <1>4
  <2>6. f1.regs = pre \o adj /\ f.regs = pre
    BY <2>3
  <2> HIDE DEF pre, i
  <2>7. (pre \o adj)[i] = pre[i] /\ Len(pre \o adj) = l + a
    BY <2>5, Joined
  <2>8. f1.regs[i] = f.regs[i] /\ i <= Len(f1.regs)
    BY <2>4, <2>6, <2>7
  <2> QED BY <2>8 DEF i
<1>8. ASSUME FnInfo[f.fn].kind \in {"calls", "pcall"} PROVE f.open # -1
  <2>1. ~IsLua(f.fn)
    BY <1>6, <1>8, FnFacts
  <2>2. x.kind \in {"calls", "pcall"}
    BY <2>1, <1>3, <1>8 DEF DealOK
  <2>3. f.open = 0
    BY <2>2, <1>3 DEF DealOK
  <2> QED BY <2>3
<1>9. Shape(c, f1)
  <2>1. f1.open >= 0 /\ IsLua(f1.fn) /\ ~f1.ret => f1.open + 1 <= Len(f1.regs) /\ f1.open < FnInfo[f1.fn].size
                                             /\ Function(f1.regs[f1.open + 1])
    <3> SUFFICES ASSUME f1.open >= 0, IsLua(f1.fn)
                 PROVE  f1.open + 1 <= Len(f1.regs) /\ f1.open < FnInfo[f1.fn].size /\ Function(f1.regs[f1.open + 1])
      OBVIOUS
    <3>1. f.open >= 0 /\ IsLua(f.fn) /\ f1.open = f.open /\ f1.fn = f.fn
      BY <1>2
    <3>2. f.open < FnInfo[f.fn].size /\ Function(f.regs[f.open + 1])
      BY <3>1, <1>4 DEF Shape
    <3> QED BY <3>1, <3>2, <1>7
  <2>2. FnInfo[f1.fn].kind \in {"calls", "pcall"} /\ f1.open = -1 /\ ~f1.ret =>
         Len(f1.regs) >= 1 /\ Function(f1.regs[1])
    BY <1>2, <1>8
  <2>3. ~f1.ready => FnInfo[f1.fn].vararg /\ Len(f1.regs) >= FnInfo[f1.fn].params /\ f1.open = -1
    BY <1>2, <1>4
  <2>4. IF Spread(f1) THEN c.nextra = Len(f1.extra) ELSE f1.extra = <<>>
    BY <1>2, <1>4, <1>5 DEF Shape
  <2>5. /\ InfoOK(c) /\ DOMAIN f1 = {"fn", "regs", "extra", "open", "ready", "closed", "ret", "want"}
        /\ f1.fn \in DOMAIN FnInfo /\ IsSeq(f1.extra) /\ f1.open \in Int /\ f1.open >= -1
        /\ f1.ready \in BOOLEAN /\ f1.closed \in BOOLEAN /\ f1.ret \in BOOLEAN
        /\ (IsLua(f1.fn) => c.func + 1 + FnInfo[f1.fn].size <= c.top)
    BY <1>2, <1>4 DEF Shape
  <2>6. Low(c, f1) \in Nat
    BY <1>5, <1>6
  <2> QED BY <2>1, <2>2, <2>3, <2>4, <2>5, <2>6, <1>4 DEF Shape
<1>10. FrameOK(g, c, f1)
  <2>1. low \in Int /\ c.func < low /\ Agree(m, g, low)
    BY <1>4 DEF Delivery
  <2>2. FrameOK(g, c, f)
    BY <2>1, <1>4, FrameStays DEF FrameOK
  <2>3. Placed(g, c, f1)
    BY <2>2, <1>2, <1>5 DEF FrameOK, Placed
  <2> QED BY <2>3, <1>9 DEF FrameOK
<1>11. DealOK(g, x, j, c, f1)
  <2>1. Room(m) <= Room(g) /\ Room(m) \in Int /\ Room(g) \in Int
    BY <1>1 DEF Values
  <2>2. x.kind = "close" => x.n \in Nat /\ x.n <= Room(g)
    <3> SUFFICES ASSUME x.kind = "close" PROVE x.n \in Nat /\ x.n <= Room(g)
      OBVIOUS
    <3>1. x.n \in Nat /\ x.n <= Room(m)
      BY <1>3 DEF DealOK
    <3> QED BY <2>1, <3>1
  <2> QED BY <2>2, <1>2, <1>3, <1>5 DEF DealOK
<1>12. Low(c, f) <= low
  BY <1>4, <1>6
<1> QED BY <1>5, <1>6, <1>10, <1>11, <1>12

(* Where the results become the last registers, they are in place.         *)
LEMMA DeliveredRegs ==
  ASSUME NEW m, NEW x, NEW j, NEW c, NEW f, NEW n, NEW low, NEW vs, NEW g, NEW f1,
         Delivery(m, x, j, c, f, n, low, vs, g, f1), x.kind \notin {"meta", "ctail"}
  PROVE  /\ f1.regs = f.want.pre \o Adjusted(vs, n) /\ RegsOK(g, c, f1)
         /\ x.kind # "close" => g.top = End(c, f1)
<1> DEFINE adj == Adjusted(vs, n)
           pre == f.want.pre
           b == c.func + 1
<1>1. Values(m, x, c, f, n, low, adj, g, f1) /\ InPlace(g, low, adj) /\ Agree(m, g, low)
  BY DeliveryValues DEF Delivery
<1> HIDE DEF adj
<1>2. DealOK(m, x, j, c, f) /\ WaitOK(m, x, c, f, n, low)
  BY DEF Delivery, OneOK
<1>3. f1.regs = pre \o adj /\ f.regs = pre
  BY <1>1, <1>2 DEF Values, DealOK, WaitOK
<1>4. /\ IsSeq(pre) /\ IsSeq(adj) /\ b \in Nat /\ low \in Nat /\ Len(pre) \in Nat /\ Len(adj) \in Nat
      /\ InPlace(m, b, pre) /\ b + Len(pre) <= low /\ StackOK(m) /\ StackOK(g) /\ (n >= 0 => Len(adj) = n)
      /\ n = f.want.n /\ g.top = low + Len(adj)
  BY <1>1, <1>3 DEF Values, RegsOK
<1> HIDE DEF pre
<1>5. InPlace(g, b, pre)
  <2>1. low \in Int
    BY <1>4
  <2> HIDE DEF b
  <2> QED BY <2>1, <1>1, <1>4, StaysInPlace
<1>6. x.kind # "close" => low = b + Len(pre)
  BY <1>2, <1>3 DEF WaitOK, pre
<1>7. InPlace(g, b + Len(pre), adj)
  <2>1. CASE x.kind # "close"
    BY <2>1, <1>1, <1>6
  <2>2. CASE x.kind = "close"
    <3>1. n = 0
      BY <2>2, <1>2, <1>4 DEF DealOK
    <3>2. Len(adj) = 0
      BY <3>1, <1>4
    <3>3. b + Len(pre) \in Nat /\ b + Len(pre) <= g.last + Extra
      <4> HIDE DEF b
      <4> QED BY <1>4, <1>5 DEF InPlace
    <3> DEFINE z == b + Len(pre)
    <3>4. z \in Nat /\ z + Len(adj) <= g.last + Extra
      <4>1. z \in Nat /\ z <= g.last + Extra
        BY <3>3
      <4> HIDE DEF z
      <4> QED BY <4>1, <3>2
    <3> HIDE DEF z
    <3>5. InPlace(g, z, adj)
      BY <3>2, <3>4 DEF InPlace
    <3> QED BY <3>5 DEF z
  <2> QED BY <2>1, <2>2
<1>8. InPlace(g, b, pre \o adj)
  <2> HIDE DEF b
  <2> QED BY <1>4, <1>5, <1>7, InPlaceJoined
<1>9. RegsOK(g, c, f1)
  BY <1>3, <1>8 DEF RegsOK
<1>10. x.kind # "close" => g.top = End(c, f1)
  <2> SUFFICES ASSUME x.kind # "close" PROVE g.top = End(c, f1)
    OBVIOUS
  <2>1. Len(f1.regs) = Len(pre) + Len(adj)
    BY <1>3, <1>4, Joined
  <2>2. End(c, f1) = b + Len(f1.regs)
    BY DEF End
  <2> DEFINE p == Len(pre)
             a == Len(adj)
             e == Len(f1.regs)
  <2>3. low = b + p /\ e = p + a /\ b \in Nat /\ p \in Nat /\ a \in Nat
    BY <2>1, <1>4, <1>6
  <2> HIDE DEF b, p, a, e
  <2>4. low + a = b + e
    BY <2>3
  <2> QED BY <2>2, <2>4, <1>4 DEF a, e
<1> QED BY <1>3, <1>9, <1>10 DEF adj, pre

(* A list behind none is that list.                                        *)
LEMMA NothingBefore ==
  ASSUME NEW t, IsSeq(t), NEW none, none = <<>>
  PROVE  none \o t = t
<1>1. IsSeq(none) /\ Len(none) = 0
  BY Singles
<1>2. IsSeq(none \o t) /\ Len(none \o t) = Len(none) + Len(t)
      /\ \A i \in 1..Len(t) : (none \o t)[Len(none) + i] = t[i]
  BY <1>1, Joined
<1>3. Len(t) \in Nat
  BY SeqFacts
<1>4. Len(none \o t) = Len(t)
  BY <1>1, <1>2, <1>3
<1>5. \A i \in 1..Len(t) : (none \o t)[i] = t[i]
  <2> TAKE i \in 1..Len(t)
  <2>1. (none \o t)[Len(none) + i] = t[i] /\ Len(none) + i = i
    BY <1>1, <1>2, <1>3
  <2> QED BY <2>1
<1> QED BY <1>2, <1>4, <1>5, SameElements

(* The results fit into the frame where it has room for so many only.      *)
LEMMA DeliveredRoom ==
  ASSUME NEW m, NEW x, NEW j, NEW c, NEW f, NEW n, NEW low, NEW vs, NEW g, NEW f1,
         Delivery(m, x, j, c, f, n, low, vs, g, f1)
  PROVE  /\ n = -1 => g.top <= Room(g)
         /\ x.kind \in {"slow", "tfor", "calls", "pcall"} => g.top <= Room(g)
         /\ x.kind \in Helper \cup {"rtcall"} /\ f.open = -1 /\ IsLua(f.fn) /\ n >= 0 => Len(f1.regs) <= FnInfo[f.fn].size
<1> DEFINE adj == Adjusted(vs, n)
           pre == f.want.pre
           post == f.want.post
<1>1. Values(m, x, c, f, n, low, adj, g, f1)
  BY DeliveryValues
<1>2. DealOK(m, x, j, c, f) /\ WaitOK(m, x, c, f, n, low) /\ low + Len(vs) <= Room(m) /\ c.top <= Room(m)
  BY DEF Delivery, OneOK
<1>3. n = -1 => adj = vs
  BY DEF Adjusted, MULTRET
<1> HIDE DEF adj
<1>4. /\ Room(m) \in Int /\ Room(g) \in Int /\ Room(m) <= Room(g) /\ low \in Nat /\ g.top = low + Len(adj)
      /\ Len(pre) \in Nat /\ Len(post) \in Nat /\ Len(adj) \in Nat /\ (n >= 0 => Len(adj) = n) /\ n \in Int /\ n >= -1
      /\ Len(f1.regs) = Len(pre) + Len(adj) + Len(post) /\ Shape(c, f) /\ n = f.want.n
  BY <1>1 DEF Values
<1>5. n = -1 => g.top <= Room(g)
  BY <1>2, <1>3, <1>4
<1>6. ASSUME x.kind \in Helper \cup {"rtcall"}, f.open = -1, IsLua(f.fn), n >= 0
      PROVE  Len(f1.regs) <= FnInfo[f.fn].size /\ Len(pre) + Len(adj) <= FnInfo[f.fn].size
  <2>1. Len(pre) + f.want.n + Len(post) <= FnInfo[f.fn].size
    BY <1>2, <1>6 DEF WaitOK, Helper
  <2>2. Len(adj) = f.want.n
    BY <1>4, <1>6
  <2>3. FnInfo[f.fn].size \in Nat
    BY <1>4, ShapeFacts
  <2> DEFINE p == Len(pre)
             a == Len(adj)
             q == Len(post)
             s == FnInfo[f.fn].size
             l == Len(f1.regs)
  <2>4. p \in Nat /\ a \in Nat /\ q \in Nat /\ s \in Nat /\ l = p + a + q /\ p + a + q <= s
    BY <2>1, <2>2, <2>3, <1>4
  <2> HIDE DEF p, a, q, s, l
  <2>5. l <= s /\ p + a <= s
    BY <2>4
  <2> QED BY <2>5 DEF p, a, l, s
<1>7. ASSUME x.kind \in {"slow", "tfor", "calls", "pcall"}, n # -1 PROVE g.top <= Room(g)
  <2>1. n >= 0
    BY <1>4, <1>7
  <2>2. x.kind \in {"slow", "tfor"} /\ f.open = -1
    BY <2>1, <1>2, <1>4, <1>7 DEF DealOK
  <2>3. f.fn \in DOMAIN FnInfo /\ c.func \in Nat /\ c.top \in Nat /\ FnInfo[f.fn].size \in Nat
    BY <1>4, ShapeFacts
  <2>4. IsLua(f.fn)
    BY <2>2, <2>3, <1>2, FnFacts DEF DealOK
  <2>5. Len(pre) + Len(adj) <= FnInfo[f.fn].size
    BY <2>1, <2>2, <2>4, <1>6 DEF Helper
  <2>6. c.func + 1 + FnInfo[f.fn].size <= c.top
    BY <2>4, <1>4 DEF Shape
  <2>7. low = c.func + 1 + Len(pre)
    BY <2>2, <1>2 DEF WaitOK
  <2> DEFINE p == Len(pre)
             a == Len(adj)
             s == FnInfo[f.fn].size
             u == c.func
             t == c.top
             gt == g.top
             R == Room(m)
             S == Room(g)
  <2>8. p \in Nat /\ a \in Nat /\ s \in Nat /\ u \in Nat /\ t \in Nat /\ R \in Int /\ S \in Int /\ R <= S /\ t <= R
        /\ gt = low + a /\ low = u + 1 + p /\ u + 1 + s <= t /\ p + a <= s
    BY <2>3, <2>5, <2>6, <2>7, <1>2, <1>4
  <2> HIDE DEF p, a, s, u, t, gt, R, S
  <2>9. gt <= S
    BY <2>8
  <2> QED BY <2>9 DEF gt, S
<1> QED BY <1>5, <1>6, <1>7

(* A metamethod's one result stays at the top until the helper copies it.  *)
LEMMA DeliveredMeta ==
  ASSUME NEW m, NEW x, NEW j, NEW c, NEW f, NEW n, NEW low, NEW vs, NEW g, NEW f1,
         Delivery(m, x, j, c, f, n, low, vs, g, f1), x.kind = "meta"
  PROVE  /\ \E v : f1.regs = f1.want.pre \o <<v>> \o f1.want.post /\ g.top - 1 \in Nat /\ Has(g, g.top - 1, v)
         /\ InPlace(g, c.func + 1, f1.want.pre)
         /\ InPlace(g, c.func + 1 + Len(f1.want.pre) + 1, f1.want.post)
         /\ g.top - 1 >= End(c, f1)
<1> DEFINE adj == Adjusted(vs, n)
           pre == f.want.pre
           post == f.want.post
           b == c.func + 1
<1>1. Values(m, x, c, f, n, low, adj, g, f1)
  BY DeliveryValues
<1>2. DealOK(m, x, j, c, f) /\ WaitOK(m, x, c, f, n, low) /\ InPlace(g, low, adj) /\ Agree(m, g, low)
      /\ f1.want = f.want /\ f1.regs = pre \o adj \o post
  BY DEF Delivery, OneOK
<1> HIDE DEF adj
<1>3. /\ low \in Nat /\ g.top = low + Len(adj) /\ (n >= 0 => Len(adj) = n) /\ n = f.want.n
      /\ Len(pre) \in Nat /\ Len(post) \in Nat /\ IsSeq(pre) /\ IsSeq(post) /\ IsSeq(adj)
      /\ Len(f1.regs) = Len(pre) + Len(adj) + Len(post) /\ b \in Nat /\ b + Len(f.regs) <= low
      /\ StackOK(m) /\ StackOK(g)
  BY <1>1 DEF Values
<1>4. Len(adj) = 1
  <2>1. f.want.n = 1
    BY <1>2 DEF DealOK
  <2>2. n = 1 /\ n >= 0
    BY <2>1, <1>3
  <2> QED BY <2>2, <1>3
<1>5. /\ Len(f.regs) = Len(pre) + 1 + Len(post) /\ InPlace(m, b, pre) /\ InPlace(m, b + Len(pre) + 1, post)
  BY <1>2 DEF WaitOK
<1> DEFINE v == adj[1]
<1>6. adj = <<v>>
  <2>1. IsSeq(<<v>>) /\ Len(<<v>>) = 1 /\ <<v>>[1] = v
    BY Singles
  <2>2. \A i \in 1..Len(adj) : adj[i] = <<v>>[i]
    BY <2>1, <1>4
  <2> HIDE DEF v
  <2> QED BY <2>1, <2>2, <1>3, <1>4, SameElements
<1>7. g.top - 1 = low
  BY <1>3, <1>4
<1>8. Has(g, low, v)
  BY <1>2, <1>3, <1>6, HasOne
<1> DEFINE p == Len(pre)
           q == Len(post)
           r == Len(f.regs)
           w == b + p + 1
<1>9. /\ b + p <= low /\ w + q <= low /\ w \in Nat /\ low \in Int /\ p = Len(pre) /\ q = Len(post)
      /\ b + Len(f1.regs) <= low
  <2> DEFINE s == Len(f1.regs)
  <2>1. b \in Nat /\ p \in Nat /\ q \in Nat /\ r = p + 1 + q /\ b + r <= low /\ low \in Nat /\ s = p + 1 + q
    BY <1>3, <1>4, <1>5
  <2> HIDE DEF b, p, q, r, s
  <2>2. b + p <= low /\ w + q <= low /\ w \in Nat /\ low \in Int /\ b + s <= low
    BY <2>1
  <2> QED BY <2>2 DEF p, q, s
<1>10. InPlace(g, b, pre)
  <2> HIDE DEF b, p
  <2> QED BY <1>2, <1>3, <1>5, <1>9, StaysInPlace DEF p
<1>11. InPlace(g, w, post)
  <2>1. InPlace(m, w, post)
    BY <1>5
  <2> HIDE DEF w, q
  <2> QED BY <2>1, <1>2, <1>3, <1>9, StaysInPlace DEF q
<1>12. g.top - 1 >= End(c, f1)
  <2>1. End(c, f1) = b + Len(f1.regs)
    BY DEF End
  <2>2. Len(f1.regs) \in Nat /\ b \in Nat
    <3>1. IsSeq(f1.regs)
      BY <1>1 DEF Values
    <3> QED BY <3>1, <1>3, SeqFacts
  <2> DEFINE s == Len(f1.regs)
             gt == g.top
  <2>3. s \in Nat /\ b \in Nat /\ low \in Nat /\ gt - 1 = low /\ b + s <= low
    BY <2>2, <1>3, <1>7, <1>9
  <2> HIDE DEF b, s, gt
  <2>4. gt - 1 >= b + s
    BY <2>3
  <2> QED BY <2>1, <2>4 DEF gt, s
<1>13. f1.regs = f1.want.pre \o <<v>> \o f1.want.post /\ g.top - 1 \in Nat /\ Has(g, g.top - 1, v)
  <2> HIDE DEF v
  <2> QED BY <1>2, <1>3, <1>6, <1>7, <1>8
<1>14. InPlace(g, c.func + 1, f1.want.pre) /\ InPlace(g, c.func + 1 + Len(f1.want.pre) + 1, f1.want.post)
  BY <1>2, <1>10, <1>11
<1> QED BY <1>12, <1>13, <1>14

(* The helper that called finds what it is about to hand on.               *)
LEMMA DeliveredMid ==
  ASSUME NEW m, NEW x, NEW j, NEW c, NEW f, NEW n, NEW low, NEW vs, NEW g, NEW f1,
         Delivery(m, x, j, c, f, n, low, vs, g, f1), x.kind \in Helper \cup {"ctail"}, NEW r, r = Len(vs)
  PROVE  MidOK(g, x, c, f1, r)
<1> DEFINE adj == Adjusted(vs, n)
<1>1. Values(m, x, c, f, n, low, adj, g, f1)
  BY DeliveryValues
<1>2. DealOK(m, x, j, c, f) /\ WaitOK(m, x, c, f, n, low) /\ InPlace(g, low, adj)
      /\ f1.want = f.want /\ f1.open = f.open /\ f1.fn = f.fn /\ f1.ready = f.ready /\ IsSeq(vs)
      /\ low + Len(vs) <= Room(m)
  BY DEF Delivery, OneOK
<1>2a. n = -1 => adj = vs
  BY DEF Adjusted, MULTRET
<1> HIDE DEF adj
<1>3. x.kind \notin {"meta", "ctail"} => RegsOK(g, c, f1)
  BY DeliveredRegs
<1>4. x.kind \in {"slow", "tfor", "calls", "pcall"} => g.top = End(c, f1) /\ g.top <= Room(g)
  BY DeliveredRegs, DeliveredRoom
<1>5. x.kind = "ctail" =>
        InPlace(g, c.func + 1 + x.a, f1.regs) /\ r = Len(f1.regs) /\ c.func + 1 + x.a + Len(f1.regs) <= Room(g)
  <2> SUFFICES ASSUME x.kind = "ctail"
               PROVE  InPlace(g, c.func + 1 + x.a, f1.regs) /\ r = Len(f1.regs) /\ c.func + 1 + x.a + Len(f1.regs) <= Room(g)
    OBVIOUS
  <2>1. f.want.n = -1 /\ f.want.pre = <<>> /\ f.want.post = <<>> /\ low = c.func + 1 + x.a /\ n = f.want.n
    BY <1>2 DEF DealOK, WaitOK
  <2>2. adj = vs /\ f1.regs = f.want.pre \o vs
    BY <2>1, <1>1, <1>2a DEF Values
  <2>3. f1.regs = vs
    BY <2>1, <2>2, <1>2, NothingBefore
  <2>4. Room(m) <= Room(g) /\ Room(m) \in Int /\ Room(g) \in Int /\ low \in Nat /\ Len(vs) \in Nat
    BY <1>1, <1>2, SeqFacts DEF Values
  <2>5. low + Len(vs) <= Room(g)
    <3> DEFINE l == Len(vs)
               R == Room(m)
               S == Room(g)
    <3>1. R <= S /\ R \in Int /\ S \in Int /\ low \in Nat /\ l \in Nat /\ low + l <= R
      BY <2>4, <1>2
    <3> HIDE DEF l, R, S
    <3>2. low + l <= S
      BY <3>1
    <3> QED BY <3>2 DEF l, S
  <2> QED BY <2>1, <2>2, <2>3, <2>5, <1>2
<1>6. x.kind \in {"slow", "meta", "tfor", "close"} => Fits(f1)
  <2> SUFFICES ASSUME x.kind \in {"slow", "meta", "tfor", "close"}, f1.open = -1
               PROVE  Len(f1.regs) <= FnInfo[f1.fn].size
    BY DEF Fits
  <2>1. f.open = -1 /\ f.want.n >= 0 /\ n = f.want.n
    BY <1>2 DEF DealOK, WaitOK
  <2>2. f.fn \in DOMAIN FnInfo
    BY <1>1, ShapeFacts DEF Values
  <2>3. IsLua(f.fn)
    BY <2>2, <1>2, FnFacts DEF DealOK
  <2>4. x.kind \in Helper \cup {"rtcall"} /\ n >= 0
    BY <2>1 DEF Helper
  <2> QED BY <2>1, <2>3, <2>4, <1>2, DeliveredRoom
<1>7. x.kind = "meta" =>
       /\ \E v : f1.regs = f1.want.pre \o <<v>> \o f1.want.post /\ g.top - 1 \in Nat /\ Has(g, g.top - 1, v)
       /\ InPlace(g, c.func + 1, f1.want.pre)
       /\ InPlace(g, c.func + 1 + Len(f1.want.pre) + 1, f1.want.post)
       /\ g.top - 1 >= End(c, f1)
  BY DeliveredMeta
<1>8. x.kind = "close" => Len(f1.regs) = Len(f1.want.pre)
  <2> SUFFICES ASSUME x.kind = "close"
               PROVE  Len(f1.regs) = Len(f1.want.pre)
    OBVIOUS
  <2>1. f.want.n = 0 /\ f.want.post = <<>> /\ n = f.want.n
    BY <1>2 DEF DealOK, WaitOK
  <2>2. Len(f1.regs) = Len(f.want.pre) + Len(adj) + Len(f.want.post) /\ Len(adj) = n
        /\ Len(f.want.pre) \in Nat
    BY <2>1, <1>1 DEF Values
  <2>3. Len(f.want.post) = 0 /\ Len(adj) = 0
    BY <2>1, <2>2
  <2> DEFINE p == Len(f.want.pre)
             q == Len(f.want.post)
             k == Len(adj)
  <2>4. p \in Nat /\ q = 0 /\ k = 0 /\ Len(f1.regs) = p + k + q
    BY <2>2, <2>3
  <2> HIDE DEF p, q, k
  <2>5. Len(f1.regs) = p
    BY <2>4
  <2> QED BY <2>5, <1>2 DEF p
<1> QED BY <1>3, <1>4, <1>5, <1>6, <1>7, <1>8 DEF MidOK

-----------------------------------------------------------------------------
(* Callees that come back.                                                 *)

(* The CallInfo is gone, its function's results stand where it was called. *)
PoscallTo(m, h, low, adj) ==
  /\ StackOK(h) /\ h.cis = Front(m.cis) /\ h.top = low + Len(adj)
  /\ Agree(m, h, low) /\ InPlace(h, low, adj)

(* luaD_poscall does that.                                                 *)
LEMMA PoscallDoes ==
  ASSUME NEW m, StackOK(m), NEW vs, IsSeq(vs), InPlace(m, m.top - Len(vs), vs),
         NEW low \in Nat, low = Last(m.cis).func,
         NEW adj, adj = Adjusted(vs, Last(m.cis).n), IsSeq(adj), low + Len(adj) <= m.last + Extra
  PROVE  PoscallTo(m, Poscall(m, Len(vs)), low, adj)
<1> DEFINE p == Put(m, low, adj)
           t == Topped(p, low + Len(adj))
           h == [t EXCEPT !.cis = Front(t.cis)]
<1>1. Read(m, m.top - Len(vs), Len(vs)) = vs
  BY ReadInPlace
<1>2. Poscall(m, Len(vs)) = h
  BY <1>1 DEF Poscall
<1>3. /\ StackOK(p) /\ p.cis = m.cis /\ Agree(m, p, low) /\ InPlace(p, low, adj)
  BY PutDoes, ZenonT(60)
<1>4. low + Len(adj) \in Nat
  BY SeqFacts
<1> HIDE DEF p
<1>5. SameSlots(p, t) /\ t.top = low + Len(adj) /\ t.cis = p.cis
  BY <1>3, <1>4, ToppedDoes
<1> HIDE DEF t
<1> DEFINE d == Front(t.cis)
<1>6. h = [t EXCEPT !.cis = d]
  OBVIOUS
<1>7. StackOK(t)
  BY <1>5 DEF SameSlots
<1> HIDE DEF h
<1>8. SameSlots(t, h) /\ h.top = t.top /\ h.cis = d
  <2> HIDE DEF d
  <2> QED BY <1>6, <1>7, CIsDone
<1>9. h.cis = Front(m.cis) /\ h.top = low + Len(adj)
  BY <1>3, <1>5, <1>8
<1>10. Agree(p, t, low) /\ InPlace(t, low, adj)
  BY <1>3, <1>5, SlotsKept
<1>11. Agree(t, h, low) /\ InPlace(h, low, adj)
  BY <1>7, <1>8, <1>10, SlotsKept
<1>12. low \in Int
  OBVIOUS
<1>13. Agree(m, t, low)
  BY <1>3, <1>10, <1>12, AgreeSteps
<1>14. Agree(m, h, low)
  BY <1>11, <1>12, <1>13, AgreeSteps
<1>15. StackOK(h)
  BY <1>8 DEF SameSlots
<1> QED BY <1>2, <1>9, <1>11, <1>14, <1>15 DEF PoscallTo

(* The frame below the one on top gets the results vs, and the activation  *)
(* on top goes: to tells who serves the frames then.                       *)
Arrival(link, to, k, vs, g, f1) ==
  /\ HoldsOK(stk, lua, nat, link) /\ k \in 1..(Len(lua) - 1) /\ k = Len(lua) - 1 /\ Serving(Front(nat), to)
  /\ Len(to) = IF Front(nat)[Len(Front(nat))].kind \in Helper \cup {"ctail"} THEN k ELSE k - 1
  /\ \A j \in 1..(k - 1) : Front(nat)[to[j]] = nat[link[j]]
  /\ Delivery(stk, nat[link[k]], k, stk.cis[k], lua[k], Last(stk.cis).n, Low(Last(stk.cis), Frame), vs, g, f1)

Frees(g, h, k, f1, gs) ==
  SameSlots(g, h) /\ h.cis = Front(stk.cis) /\ gs = Append(SubSeq(lua, 1, k - 1), f1)
Landed(h, gs, to, k, f1) ==
  /\ HoldsOK(h, gs, Front(nat), to) /\ Len(gs) = k /\ gs[k] = f1 /\ h.cis[k] = stk.cis[k]
  /\ FrameOK(h, stk.cis[k], f1)

(* All frames are then in order.                                           *)
LEMMA Arrived ==
  ASSUME NEW link, NEW to, NEW k, NEW vs, NEW g, NEW f1, Arrival(link, to, k, vs, g, f1),
         NEW h, NEW gs, Frees(g, h, k, f1, gs)
  PROVE  Landed(h, gs, to, k, f1)
<1> DEFINE x == nat[link[k]]
           c == stk.cis[k]
           n == Last(stk.cis).n
           low == Low(Last(stk.cis), Frame)
           f == lua[k]
<1>1. Delivery(stk, x, k, c, f, n, low, vs, g, f1) /\ k \in 1..(Len(lua) - 1) /\ k = Len(lua) - 1
      /\ StackOK(stk) /\ IsSeq(stk.cis) /\ IsSeq(lua) /\ Len(stk.cis) = Len(lua)
  BY DEF Arrival, HoldsOK
<1>0. SameSlots(g, h) /\ h.cis = Front(stk.cis) /\ gs = Append(SubSeq(lua, 1, k - 1), f1)
  BY DEF Frees
<1> HIDE DEF x, n, low
<1>2. FrameOK(g, c, f1) /\ Low(c, f1) = Low(c, f) /\ Low(c, f) \in Nat /\ Low(c, f) <= low
  BY <1>1, DeliveredFrame
<1>3. low \in Nat /\ Agree(stk, g, low) /\ StackOK(g)
  BY <1>1 DEF Delivery, Agree
<1>4. Agree(g, h, low) /\ StackOK(h)
  BY <1>0, <1>3, SlotsKept DEF SameSlots
<1>5. Agree(stk, h, low)
  <2>1. low \in Int
    BY <1>3
  <2> QED BY <2>1, <1>1, <1>3, <1>4, AgreeSteps
<1>6. Agree(stk, h, Low(c, f))
  <2>1. low \in Int /\ Low(c, f) \in Int
    BY <1>2, <1>3
  <2> DEFINE d == Low(c, f)
  <2>2. d \in Int /\ d <= low
    BY <2>1, <1>2
  <2> HIDE DEF d
  <2>3. Agree(stk, h, d)
    BY <2>1, <2>2, <1>1, <1>5, AgreeBelow
  <2> QED BY <2>3 DEF d
<1>7. FrameOK(h, c, f1)
  <2> DEFINE b == c.func + 1
  <2>1. c.func \in Nat
    BY <1>2, ShapeFacts DEF FrameOK
  <2>2. b \in Int /\ c.func < b
    BY <2>1
  <2> HIDE DEF b
  <2>3. Agree(g, h, b)
    BY <1>0, <1>3, SlotsKept
  <2> QED BY <2>2, <2>3, <1>2, <1>3, FrameStays
<1>8. Len(lua) \in Nat /\ k \in Nat
  BY <1>1, SeqFacts
<1>9. IsSeq(h.cis) /\ Len(h.cis) = k /\ \A j \in 1..k : h.cis[j] = stk.cis[j]
  <2>1. Len(stk.cis) >= 1 /\ Len(stk.cis) - 1 = k
    BY <1>1, <1>8
  <2>2. Shorter(stk.cis, Front(stk.cis))
    BY <2>1, <1>1, FrontShorter
  <2> QED BY <2>1, <2>2, <1>0 DEF Shorter
<1>10. IsSeq(gs) /\ Len(gs) = k /\ gs[k] = f1 /\ \A j \in 1..(k - 1) : gs[j] = lua[j]
  <2> DEFINE s == SubSeq(lua, 1, k - 1)
             i == k - 1
  <2>1. i \in 0..Len(lua) /\ i \in Nat
    BY <1>1, <1>8
  <2>2. IsSeq(SubSeq(lua, 1, i)) /\ Len(SubSeq(lua, 1, i)) = i /\ \A j \in 1..i : SubSeq(lua, 1, i)[j] = lua[j]
    <3> HIDE DEF i
    <3> QED BY <2>1, <1>1, Beginning
  <2>3. IsSeq(s) /\ Len(s) = k - 1 /\ \A j \in 1..(k - 1) : s[j] = lua[j]
    BY <2>2
  <2> HIDE DEF s
  <2>4. Longer(s, Append(s, f1), f1)
    BY <2>3, AppendLonger
  <2>5. gs = Append(s, f1)
    BY <1>0 DEF s
  <2>6. IsSeq(gs) /\ Len(gs) = Len(s) + 1 /\ gs[Len(s) + 1] = f1 /\ \A j \in 1..Len(s) : gs[j] = s[j]
    BY <2>4, <2>5 DEF Longer
  <2> QED BY <2>3, <2>6, <1>8
<1>11. CutStep(link, k, h, gs, Front(nat), to)
  <2>1. \A j \in 1..(k - 1) : Front(nat)[to[j]] = nat[link[j]]
    BY DEF Arrival
  <2>2. HoldsOK(stk, lua, nat, link) /\ Serving(Front(nat), to)
        /\ Len(to) = IF Front(nat)[Len(Front(nat))].kind \in Helper \cup {"ctail"} THEN k ELSE k - 1
    BY DEF Arrival
  <2>3. FrameOK(h, stk.cis[k], gs[k]) /\ Low(stk.cis[k], gs[k]) = Low(stk.cis[k], lua[k])
        /\ Agree(stk, h, Low(stk.cis[k], lua[k]))
    BY <1>2, <1>6, <1>7, <1>10
  <2> QED BY <2>1, <2>2, <2>3, <1>1, <1>9, <1>10 DEF CutStep
<1>12. HoldsOK(h, gs, Front(nat), to)
  BY <1>11, HoldsCut
<1>13. h.cis[k] = stk.cis[k]
  BY <1>1, <1>8, <1>9
<1> QED BY <1>7, <1>10, <1>12, <1>13 DEF Landed

(* How the frame below gets them.                                          *)
LEMMA Delivers ==
  ASSUME LoopInv, DataInv, StackHolds, NEW link, HoldsOK(stk, lua, nat, link), NEW k, k = Len(lua) - 1, k >= 1,
         NEW vs, IsSeq(vs), NEW low, low = Low(Last(stk.cis), Frame), low + Len(vs) <= Room(stk),
         NEW g, Agree(stk, g, low), InPlace(g, low, Adjusted(vs, Last(stk.cis).n)),
         g.top = low + Len(Adjusted(vs, Last(stk.cis).n))
  PROVE  \E f1 : /\ Delivered(vs) = Append(SubSeq(lua, 1, k - 1), f1)
                 /\ Delivery(stk, nat[link[k]], k, stk.cis[k], lua[k], Last(stk.cis).n, low, vs, g, f1)
<1> DEFINE c == stk.cis[k]
           f == lua[k]
           x == nat[link[k]]
           n == Last(stk.cis).n
           f1 == [f EXCEPT !.regs = f.want.pre \o Adjusted(vs, f.want.n) \o f.want.post]
<1>1. OneOK(stk, x, k, c, f, n, low) /\ c.top <= Room(stk) /\ low \in Nat /\ StackOK(stk) /\ k \in Nat
  <2>1. OneOK(stk, x, k, c, f, n, low) /\ c.top <= Room(stk) /\ low \in Nat /\ k \in Nat
    BY Beneath
  <2> QED BY <2>1 DEF HoldsOK
<1>2. f.want.n = n /\ DOMAIN f = {"fn", "regs", "extra", "open", "ready", "closed", "ret", "want"}
  BY <1>1 DEF OneOK, FrameOK, Shape, WaitOK
<1>3. Delivered(vs) = Append(SubSeq(lua, 1, k - 1), f1)
  <2>1. Len(lua) - 2 = k - 1 /\ Len(lua) - 1 = k
    <3>1. Len(lua) \in Nat
      BY SeqFacts DEF HoldsOK
    <3> QED BY <3>1
  <2> QED BY <2>1 DEF Delivered
<1>4. /\ DOMAIN f1 = DOMAIN f /\ f1.fn = f.fn /\ f1.extra = f.extra /\ f1.ready = f.ready /\ f1.ret = f.ret
      /\ f1.closed = f.closed /\ f1.open = f.open /\ f1.want = f.want
      /\ f1.regs = f.want.pre \o Adjusted(vs, n) \o f.want.post
  BY <1>2
<1> HIDE DEF f1, c, f, x, n
<1>5. Delivery(stk, x, k, c, f, n, low, vs, g, f1)
  <2>1. InPlace(g, low, Adjusted(vs, n)) /\ g.top = low + Len(Adjusted(vs, n))
    BY DEF n
  <2> QED BY <2>1, <1>1, <1>4 DEF Delivery
<1> QED BY <1>3, <1>5 DEF c, f, x, n

(* There is room for what the frame below wants.                           *)
LEMMA ResultsFit ==
  ASSUME LoopInv, DataInv, StackHolds, NEW link, HoldsOK(stk, lua, nat, link), NEW k, k = Len(lua) - 1, k >= 1,
         NEW vs, IsSeq(vs), NEW low, low = Low(Last(stk.cis), Frame), low + Len(vs) <= Room(stk),
         NEW adj, adj = Adjusted(vs, Last(stk.cis).n)
  PROVE  IsSeq(adj) /\ low + Len(adj) <= stk.last + Extra /\ low \in Nat /\ Len(vs) \in Nat
<1> DEFINE n == Last(stk.cis).n
           z == stk.last
           v == Len(vs)
<1>1. OneOK(stk, nat[link[k]], k, stk.cis[k], lua[k], n, low) /\ low \in Nat /\ n \in Int /\ n >= -1
  BY Beneath
<1>2. WaitOK(stk, nat[link[k]], stk.cis[k], lua[k], n, low)
  BY <1>1 DEF OneOK
<1>3. n >= 0 => low + n <= z + Extra
  BY <1>2 DEF WaitOK
<1>4. IsSeq(adj) /\ Len(adj) = (IF n = MULTRET THEN v ELSE n)
  <2> HIDE DEF n
  <2>1. adj = Adjusted(vs, n)
    BY DEF n
  <2> QED BY <2>1, <1>1, AdjustedSeq
<1>5. z \in Nat /\ Extra \in Nat /\ v \in Nat
  BY ExtraNat, SeqFacts DEF HoldsOK, StackOK
<1>6. low + v <= z + Extra - 3
  BY DEF Room
<1> HIDE DEF n, z, v
<1>7. low + Len(adj) <= z + Extra
  BY <1>1, <1>3, <1>4, <1>5, <1>6, SMTT(30) DEF MULTRET
<1> QED BY <1>1, <1>4, <1>5, <1>7 DEF z, v

(* A helper of the frame below gets the results.                           *)
LEMMA HelperGets ==
  ASSUME LoopInv, DataInv, StackHolds, NEW link, HoldsOK(stk, lua, nat, link), Len(link) = Len(lua) - 1,
         Last(nat).kind \in {"cfn", "ccall"}, Len(nat) > 1,
         NEW vs, IsSeq(vs), NEW low, low = Low(Last(stk.cis), Frame), low + Len(vs) <= Room(stk),
         PoscallTo(stk, stk', low, Adjusted(vs, Last(stk.cis).n)),
         lua' = Delivered(vs), nat' = Front(nat), rax' = Len(vs), rep' = FALSE, prog' = prog, fuel' = fuel
  PROVE  DataInv'
<1> DEFINE u == Front(nat)
           k == Len(lua) - 1
           N == Len(nat)
<1>1. Ordered(nat) /\ IsSeq(nat) /\ N \in Nat \ {0} /\ Last(nat) = nat[N] /\ prog \in Programs /\ fuel \in Nat
      /\ Len(lua) \in Nat \ {0}
  BY Anywhere
<1>2. Shorter(nat, u)
  <2>1. Len(nat) >= 1
    BY <1>1
  <2> QED BY <2>1, <1>1, FrontShorter
<1> HIDE DEF u
<1>3. IsSeq(u) /\ Len(u) = N - 1 /\ Len(u) >= 1 /\ u[Len(u)] = nat[N - 1]
  <2>1. IsSeq(u) /\ Len(u) = N - 1 /\ \A i \in 1..Len(u) : u[i] = nat[i]
    BY <1>2 DEF Shorter
  <2>2. N > 1
    OBVIOUS
  <2> HIDE DEF N
  <2> QED BY <2>1, <2>2, <1>1
<1>4. u[Len(u)].kind \in Helper \cup {"ctail"}
  <2>1. nat[N - 1].kind \in Under(nat[N].kind)
    BY <1>1 DEF Ordered
  <2>2. nat[N].kind \in {"cfn", "ccall"}
    BY <1>1
  <2> QED BY <2>1, <2>2, <1>3 DEF Under
<1>5. Serving(nat, link) /\ nat[Len(nat)].kind \notin Server
  BY <1>1 DEF HoldsOK, Server, Helper
<1>6. Serving(u, link) /\ \A j \in 1..Len(link) : u[link[j]] = nat[link[j]]
  <2>1. Len(nat) >= 1
    BY <1>1
  <2> QED BY <2>1, <1>1, <1>5, ServingPop DEF u
<1>7. Len(link) >= 1 /\ link[Len(link)] = Len(u)
  <2>1. u[Len(u)].kind \in Server
    BY <1>4 DEF Server
  <2> QED BY <2>1, <1>3, <1>6, ServingPop
<1>8. k >= 1 /\ Len(link) = k /\ k \in Nat /\ k \in 1..(Len(lua) - 1) /\ k \in 1..Len(link)
  BY <1>1, <1>7
<1> DEFINE x == nat[link[k]]
<1>9. u[Len(u)] = x
  BY <1>6, <1>7, <1>8
<1> DEFINE c == stk.cis[k]
           f == lua[k]
           n == Last(stk.cis).n
<1>10. PICK f1 : /\ Delivered(vs) = Append(SubSeq(lua, 1, k - 1), f1)
                 /\ Delivery(stk, x, k, c, f, n, low, vs, stk', f1)
  <2>1. /\ Agree(stk, stk', low) /\ InPlace(stk', low, Adjusted(vs, Last(stk.cis).n))
        /\ stk'.top = low + Len(Adjusted(vs, Last(stk.cis).n))
    BY DEF PoscallTo
  <2>2. k = Len(lua) - 1 /\ k >= 1
    BY <1>8
  <2> HIDE DEF k
  <2> QED BY <2>1, <2>2, Delivers
<1>11. Arrival(link, link, k, vs, stk', f1)
  <2>1. \A j \in 1..(k - 1) : u[link[j]] = nat[link[j]]
    <3>1. \A j \in 1..(k - 1) : j \in 1..Len(link)
      BY <1>8
    <3> QED BY <3>1, <1>6
  <2>2. Len(link) = IF u[Len(u)].kind \in Helper \cup {"ctail"} THEN k ELSE k - 1
    BY <1>4, <1>8
  <2>3. Delivery(stk, nat[link[k]], k, stk.cis[k], lua[k], Last(stk.cis).n, Low(Last(stk.cis), Frame), vs, stk', f1)
    BY <1>10
  <2> HIDE DEF k
  <2>4. k = Len(lua) - 1
    BY DEF k
  <2> QED BY <2>1, <2>2, <2>3, <2>4, <1>6, <1>8 DEF Arrival, u
<1>12. /\ HoldsOK(stk', lua', nat', link) /\ Len(lua') = k /\ lua'[k] = f1 /\ stk'.cis[k] = c
  <2>1. SameSlots(stk', stk') /\ stk'.cis = Front(stk.cis) /\ StackOK(stk')
    BY DEF PoscallTo, SameSlots
  <2>2. lua' = Append(SubSeq(lua, 1, k - 1), f1)
    BY <1>10
  <2>3. Frees(stk', stk', k, f1, lua')
    BY <2>1, <2>2 DEF Frees
  <2> HIDE DEF k, u
  <2>4. Landed(stk', lua', link, k, f1)
    BY <2>3, <1>11, Arrived
  <2> QED BY <2>4 DEF Landed
<1> HIDE DEF c, f, n
<1>13. TopOK(stk', x, k, c, f1, Len(vs), FALSE)
  <2>1. x.kind \in Helper \cup {"ctail"}
    BY <1>4, <1>9
  <2> HIDE DEF x, k
  <2>2. DealOK(stk', x, k, c, f1)
    BY <1>10, DeliveredFrame
  <2>3. MidOK(stk', x, c, f1, Len(vs))
    <3> DEFINE r == Len(vs)
    <3>1. r = Len(vs)
      OBVIOUS
    <3> HIDE DEF r
    <3>2. MidOK(stk', x, c, f1, r)
      BY <3>1, <2>1, <1>10, DeliveredMid
    <3> QED BY <3>1, <3>2
  <2>4. Len(vs) \in Nat
    BY SeqFacts
  <2>5. x.kind \notin {"body", "cfn"} \cup Entry
    BY <2>1 DEF Helper, Entry
  <2>6. ~f1.ret
    BY <2>2 DEF DealOK
  <2>7. Len(vs) # -1 /\ Len(vs) \in Int
    BY <2>4
  <2> QED BY <2>1, <2>2, <2>3, <2>5, <2>6, <2>7 DEF TopOK
<1>14. nat'[Len(nat')] = x
  BY <1>9 DEF u
<1>15. TopOK(stk', nat'[Len(nat')], Len(lua'), stk'.cis[Len(lua')], lua'[Len(lua')], rax', rep')
  <2> HIDE DEF x, k
  <2> QED BY <1>12, <1>13, <1>14
<1>16. prog' \in Programs /\ fuel' \in Nat
  BY <1>1
<1>17. \E to : HoldsOK(stk', lua', nat', to)
  BY <1>12
<1> QED BY <1>15, <1>16, <1>17 DEF DataInv

(* The end of a list, which may be nothing.                                *)
LEMMA NoneLeft ==
  ASSUME NEW s, IsSeq(s), NEW a \in Nat, a >= Len(s)
  PROVE  SubSeq(s, a + 1, Len(s)) = <<>>
<1>1. PICK S : s \in Seq(S)
  BY DEF IsSeq
<1>2. Len(s) \in Nat
  BY <1>1
<1>3. a + 1 > Len(s)
  BY <1>2
<1> QED BY <1>1, <1>2, <1>3

(* A C function has its results vs on top.                                 *)
Results(m, vs, low) ==
  /\ StackOK(m) /\ IsSeq(vs) /\ InPlace(m, m.top - Len(vs), vs) /\ m.last = stk.last /\ m.cis = stk.cis
  /\ low \in Nat /\ Agree(stk, m, low) /\ low + Len(vs) <= Room(stk) /\ low <= m.top

(* The collector leaves them there.                                        *)
LEMMA ResultsCollected ==
  ASSUME StackOK(stk), NEW m, NEW vs, NEW low, Results(m, vs, low)
  PROVE  Results(Collected(m), vs, low)
<1> DEFINE g == Collected(m)
<1>1. /\ StackOK(m) /\ IsSeq(vs) /\ InPlace(m, m.top - Len(vs), vs) /\ m.last = stk.last /\ m.cis = stk.cis
      /\ low \in Nat /\ Agree(stk, m, low) /\ low + Len(vs) <= Room(stk) /\ low <= m.top
  BY DEF Results
<1>2. StackOK(g) /\ g.top = m.top /\ g.last = m.last /\ g.cis = m.cis /\ Agree(m, g, m.top)
  BY <1>1, CollectedDoes
<1> HIDE DEF g
<1> DEFINE t == m.top
           at == t - Len(vs)
<1>3. t \in Nat /\ Len(vs) \in Nat /\ t \in Int
  BY <1>1, SeqFacts DEF StackOK
<1>4. at + Len(vs) <= t /\ low \in Int /\ low <= t
  BY <1>1, <1>3
<1>5. InPlace(m, at, vs) /\ Agree(m, g, t)
  BY <1>1, <1>2
<1> HIDE DEF t, at
<1>6. InPlace(g, at, vs)
  BY <1>1, <1>3, <1>4, <1>5, StaysInPlace
<1>7. Agree(m, g, low)
  BY <1>1, <1>3, <1>4, <1>5, AgreeBelow
<1>8. Agree(stk, g, low)
  BY <1>1, <1>4, <1>7, AgreeSteps
<1> QED BY <1>1, <1>2, <1>6, <1>8 DEF Results, at, t, g

(* They are handed over.                                                   *)
LEMMA ResultsPassed ==
  ASSUME StackOK(stk), NEW m, NEW vs, NEW low, Results(m, vs, low), low = Last(stk.cis).func,
         NEW adj, adj = Adjusted(vs, Last(stk.cis).n), IsSeq(adj), low + Len(adj) <= stk.last + Extra
  PROVE  PoscallTo(stk, Poscall(m, Len(vs)), low, adj)
<1> DEFINE h == Poscall(m, Len(vs))
<1>1. /\ StackOK(m) /\ IsSeq(vs) /\ InPlace(m, m.top - Len(vs), vs) /\ m.last = stk.last /\ m.cis = stk.cis
      /\ low \in Nat /\ Agree(stk, m, low)
  BY DEF Results
<1>2. low = Last(m.cis).func /\ adj = Adjusted(vs, Last(m.cis).n) /\ low + Len(adj) <= m.last + Extra
  BY <1>1
<1>3. PoscallTo(m, h, low, adj)
  BY <1>1, <1>2, PoscallDoes
<1> HIDE DEF h
<1>4. Agree(m, h, low) /\ low \in Int
  BY <1>1, <1>3 DEF PoscallTo
<1>5. Agree(stk, h, low)
  BY <1>1, <1>4, AgreeSteps
<1> QED BY <1>1, <1>3, <1>5 DEF PoscallTo, h

(* Values of its own.                                                      *)
LEMMA OwnResults ==
  ASSUME LoopInv, DataInv, StackHolds, NEW link, Operating(link), FnInfo[Frame.fn].kind = "c",
         NEW n \in Counts, NEW m, m = Topped(Put(stk, stk.top, Tokens(n)), stk.top + n)
  PROVE  Results(m, Tokens(n), Last(stk.cis).func) /\ Len(Tokens(n)) = n
<1> DEFINE c == Last(stk.cis)
           t == stk.top
           vs == Tokens(n)
           p == Put(stk, t, vs)
           low == c.func
<1>1. OpNumbers /\ StackOK(stk) /\ fuel \in Nat /\ OpOK(stk, c, Frame)
  BY OperatingNumbers DEF Operating
<1>2. t + MinStack <= c.top /\ c.top <= Room(stk)
  <2>1. c.top <= Room(stk)
    BY Anywhere
  <2> QED BY <2>1, <1>1 DEF OpOK
<1>3. n \in Nat /\ n <= MinStack /\ MinStack \in Nat
  BY CallsAssumption DEF CallsAssumption
<1>4. IsSeq(vs) /\ Len(vs) = n
  BY <1>1, <1>3, TokensSeq
<1>5. t \in Nat /\ low \in Nat /\ low <= t /\ c.top \in Nat /\ Room(stk) \in Nat /\ Room(stk) + 3 = stk.last + Extra
  BY <1>1 DEF OpNumbers
<1> DEFINE r == Room(stk)
           z == stk.last + Extra
           k == c.top
<1>6. t + n <= z /\ low + n <= r /\ t + n \in Nat /\ t \in Int /\ low \in Int /\ low <= t + n /\ t + n - n = t
  <2>1. t \in Nat /\ low \in Nat /\ low <= t /\ k \in Nat /\ r \in Nat /\ r + 3 = z /\ t + MinStack <= k /\ k <= r
    BY <1>2, <1>5
  <2> HIDE DEF t, low, k, r, z
  <2> QED BY <2>1, <1>3
<1> HIDE DEF vs
<1>7. StackOK(p) /\ p.last = stk.last /\ p.cis = stk.cis /\ InPlace(p, t, vs) /\ Agree(stk, p, t)
  <2>1. t + Len(vs) <= stk.last + Extra
    BY <1>4, <1>6
  <2> HIDE DEF t
  <2>2. t \in Nat
    BY <1>5 DEF t
  <2> QED BY <2>1, <2>2, <1>1, <1>4, PutDoes
<1> HIDE DEF p
<1>8. SameSlots(p, m) /\ m.top = t + n /\ m.cis = p.cis
  <2>1. m = Topped(p, t + n)
    BY DEF p, vs
  <2> DEFINE e == t + n
  <2>2. e \in Nat /\ m = Topped(p, e)
    BY <2>1, <1>6
  <2> HIDE DEF e
  <2>3. SameSlots(p, m) /\ m.top = e /\ m.cis = p.cis
    BY <2>2, <1>7, ToppedDoes
  <2> QED BY <2>3 DEF e
<1>9. StackOK(m) /\ m.last = stk.last /\ m.cis = stk.cis /\ InPlace(m, t, vs) /\ Agree(p, m, t)
  BY <1>7, <1>8, SlotsKept DEF SameSlots
<1>10. Agree(stk, m, low)
  <2> HIDE DEF t, low
  <2>1. t \in Int /\ low \in Int /\ low <= t
    BY <1>5 DEF t, low
  <2>2. Agree(stk, m, t)
    BY <2>1, <1>1, <1>7, <1>9, AgreeSteps
  <2> QED BY <2>1, <2>2, <1>1, AgreeBelow
<1>11. InPlace(m, m.top - Len(vs), vs)
  <2>1. m.top - Len(vs) = t
    BY <1>4, <1>6, <1>8
  <2> QED BY <2>1, <1>9
<1> QED BY <1>4, <1>5, <1>6, <1>8, <1>9, <1>10, <1>11 DEF Results, vs

(* Values that came from the function it was given.                        *)
LEMMA PassedResults ==
  ASSUME LoopInv, DataInv, StackHolds, NEW link, Operating(link), Frame.open >= 0,
         NEW vs, vs = SubSeq(Frame.regs, Frame.open + 1, Live)
  PROVE  Results(stk, vs, Last(stk.cis).func)
<1> DEFINE c == Last(stk.cis)
           o == Frame.open
           s == Frame.regs
           b == Base(stk)
           k == Live
           low == c.func
           t == stk.top
           r == Room(stk)
<1>1. OpNumbers /\ StackOK(stk)
  BY OperatingNumbers DEF Operating
<1>2. o \in Nat
  <2>1. Shape(c, Frame)
    BY DEF Operating, FrameOK
  <2> QED BY <2>1, ShapeFacts
<1>3. IsSeq(s) /\ k \in Nat /\ k = Len(s) /\ b \in Nat /\ InPlace(stk, b, s) /\ t = b + k /\ b = low + 1
      /\ low \in Nat /\ t \in Nat /\ t <= r /\ r \in Nat /\ r + 3 = stk.last + Extra
  BY <1>1 DEF OpNumbers
<1> DEFINE z == stk.last + Extra
<1>3a. r + 3 = z /\ t <= z
  BY <1>3
<1> HIDE DEF o, s, b, k, low, r, t, z
<1>4. /\ IsSeq(vs) /\ InPlace(stk, t - Len(vs), vs) /\ Len(vs) \in Nat /\ Len(vs) <= k
  <2>1. CASE o <= k
    <3> DEFINE i == o + 1
    <3>1. i \in 1..(Len(s) + 1) /\ k \in (i - 1)..Len(s) /\ k - i + 1 = k - o /\ b + i - 1 = b + o
      BY <2>1, <1>2, <1>3
    <3>2. vs = SubSeq(s, i, k)
      BY DEF o, s, k
    <3> HIDE DEF i
    <3>2a. IsSeq(SubSeq(s, i, k)) /\ Len(SubSeq(s, i, k)) = k - i + 1
      BY <3>1, <1>3, Part
    <3>3. IsSeq(vs) /\ Len(vs) = k - i + 1
      BY <3>2, <3>2a
    <3>4. InPlace(stk, b + i - 1, vs)
      BY <3>1, <3>2, <1>1, <1>3, InPlacePart
    <3> HIDE DEF i
    <3> DEFINE v == Len(vs)
    <3>5. v = k - o
      BY <3>1, <3>3
    <3> HIDE DEF v
    <3>6. t - v = b + i - 1 /\ v \in Nat /\ v <= k
      BY <3>1, <3>5, <2>1, <1>2, <1>3
    <3> QED BY <3>3, <3>4, <3>6 DEF v
  <2>2. CASE o > k
    <3>1. o \in Nat /\ o >= Len(s)
      BY <2>2, <1>2, <1>3
    <3>2. SubSeq(s, o + 1, Len(s)) = <<>>
      BY <3>1, <1>3, NoneLeft
    <3>3. vs = <<>>
      BY <3>2, <1>3 DEF o, s, k
    <3>4. IsSeq(vs) /\ Len(vs) = 0
      BY <3>3, Singles
    <3> DEFINE v == Len(vs)
    <3>5. v = 0
      BY <3>4
    <3> HIDE DEF v
    <3>6. t - v = t /\ t + v <= z /\ v <= k /\ v \in Nat
      BY <3>5, <1>3, <1>3a
    <3>7. \A i \in 1..v : FALSE
      BY <3>5
    <3>8. InPlace(stk, t, vs)
      BY <3>6, <3>7, <1>3 DEF InPlace, z, v
    <3>9. InPlace(stk, t - v, vs)
      BY <3>6, <3>8
    <3> QED BY <3>4, <3>6, <3>9 DEF v
  <2>3. o <= k \/ o > k
    BY <1>2, <1>3
  <2> QED BY <2>1, <2>2, <2>3
<1>5. low + Len(vs) <= r /\ low <= t
  <2> DEFINE v == Len(vs)
  <2>1. v \in Nat /\ v <= k
    BY <1>4
  <2> HIDE DEF v
  <2>2. low + v <= r /\ low <= t
    BY <2>1, <1>3
  <2> QED BY <2>2 DEF v
<1>6. Agree(stk, stk, low)
  BY <1>1, AgreeSteps
<1> QED BY <1>1, <1>3, <1>4, <1>5, <1>6 DEF Results, low, r, t

(* A C function returns.                                                   *)
LEMMA CReturnKeeps ==
  ASSUME LoopInv, DataInv, StackHolds, NEW n, CReturn(n)
  PROVE  DataInv'
<1> DEFINE own == FnInfo[Frame.fn].kind = "c"
           vs == IF own THEN Tokens(n) ELSE SubSeq(Frame.regs, Frame.open + 1, Live)
           m == IF own THEN Topped(Put(stk, stk.top, vs), stk.top + n) ELSE stk
           low == Last(stk.cis).func
           adj == Adjusted(vs, Last(stk.cis).n)
           k == Len(lua) - 1
<1>1. /\ Runs("cfn") /\ Len(nat) > 1 /\ (IF own THEN n \in Counts ELSE Frame.open >= 0 /\ n = Len(vs))
      /\ stk' \in {Poscall(m, n), Poscall(Collected(m), n)}
      /\ lua' = Delivered(vs) /\ rax' = n /\ nat' = Front(nat)
      /\ rep' = rep /\ fuel' = fuel /\ prog' = prog
  BY DEF CReturn
<1>2. PICK link : Operating(link)
  BY <1>1, CFacts
<1>3. OpNumbers /\ StackOK(stk) /\ HoldsOK(stk, lua, nat, link) /\ Len(link) = Len(lua) - 1 /\ rep = FALSE
      /\ Last(nat).kind = "cfn"
  BY <1>2, OperatingNumbers DEF Operating
<1>4. Results(m, vs, low) /\ n = Len(vs)
  <2>1. CASE own
    <3>1. n \in Counts /\ m = Topped(Put(stk, stk.top, Tokens(n)), stk.top + n) /\ vs = Tokens(n)
      BY <2>1, <1>1
    <3> HIDE DEF m, vs
    <3>2. Results(m, Tokens(n), Last(stk.cis).func) /\ Len(Tokens(n)) = n
      BY <2>1, <3>1, <1>2, OwnResults
    <3> QED BY <3>1, <3>2
  <2>2. CASE ~own
    <3>1. Frame.open >= 0 /\ n = Len(vs) /\ m = stk /\ vs = SubSeq(Frame.regs, Frame.open + 1, Live)
      BY <2>2, <1>1
    <3> HIDE DEF m, vs
    <3>2. Results(stk, vs, Last(stk.cis).func)
      BY <3>1, <1>2, PassedResults
    <3> QED BY <3>1, <3>2
  <2> QED BY <2>1, <2>2
<1> HIDE DEF m, vs
<1>5. low = Low(Last(stk.cis), Frame)
  BY <1>3 DEF OpNumbers
<1>6. IsSeq(vs) /\ low + Len(vs) <= Room(stk)
  BY <1>4 DEF Results
<1>7. Len(lua) \in Nat \ {0} /\ Len(link) >= 1 /\ k >= 1
  <2>1. Ordered(nat) /\ IsSeq(nat) /\ Len(nat) \in Nat /\ Len(lua) \in Nat \ {0}
    BY <1>2 DEF Operating
  <2>2. Serving(nat, link)
    BY <1>3 DEF HoldsOK
  <2>3. nat[Len(nat)].kind = "cfn"
    BY <1>2 DEF Operating
  <2>4. nat[Len(nat) - 1].kind \in Under(nat[Len(nat)].kind)
    <3>1. Len(nat) \in 2..Len(nat)
      BY <1>1, <2>1
    <3> QED BY <2>1, <3>1 DEF Ordered
  <2>5. nat[Len(nat) - 1].kind \in Server
    BY <2>3, <2>4 DEF Under, Server
  <2>6. Len(nat) - 1 \in 1..Len(nat)
    BY <1>1, <2>1
  <2>7. \E j \in 1..Len(link) : link[j] = Len(nat) - 1
    BY <2>2, <2>5, <2>6 DEF Serving
  <2> QED BY <2>1, <2>7, <1>3
<1>8. IsSeq(adj) /\ low + Len(adj) <= stk.last + Extra
  <2>1. k = Len(lua) - 1
    OBVIOUS
  <2>2. adj = Adjusted(vs, Last(stk.cis).n)
    OBVIOUS
  <2> HIDE DEF k, low, adj
  <2> QED BY <2>1, <2>2, <1>3, <1>5, <1>6, <1>7, ResultsFit
<1>9. PoscallTo(stk, stk', low, adj)
  <2>1. low = Last(stk.cis).func /\ adj = Adjusted(vs, Last(stk.cis).n)
    OBVIOUS
  <2> HIDE DEF low, adj
  <2>2. PoscallTo(stk, Poscall(m, Len(vs)), low, adj)
    BY <2>1, <1>3, <1>4, <1>8, ResultsPassed
  <2>3. Results(Collected(m), vs, low)
    BY <1>3, <1>4, ResultsCollected
  <2> DEFINE g == Collected(m)
  <2>4. Results(g, vs, low)
    BY <2>3
  <2> HIDE DEF g
  <2>5. PoscallTo(stk, Poscall(g, Len(vs)), low, adj)
    BY <2>1, <2>4, <1>3, <1>8, ResultsPassed
  <2> QED BY <2>2, <2>5, <1>1, <1>4 DEF g
<1>10. rax' = Len(vs) /\ rep' = FALSE
  BY <1>1, <1>3, <1>4
<1>11. PoscallTo(stk, stk', low, Adjusted(vs, Last(stk.cis).n)) /\ Last(nat).kind \in {"cfn", "ccall"}
  BY <1>3, <1>9
<1> HIDE DEF low, adj, k
<1> QED BY <1>1, <1>3, <1>5, <1>6, <1>10, <1>11, HelperGets

(* A native function has come back to whoever called it.                   *)
LEMMA CameBack ==
  ASSUME LoopInv, DataInv, StackHolds, NEW kind \in Entry, Waiting(kind), ~rep
  PROVE  /\ LeftOK(stk, Last(stk.cis), Frame, rax) /\ nat[Len(nat)].kind = kind /\ rep = FALSE
         /\ Low(Last(stk.cis), Frame) = Last(stk.cis).func /\ Last(stk.cis).func \in Nat
         /\ IsSeq(Frame.regs) /\ Len(Frame.regs) \in Nat /\ rax = Len(Frame.regs)
         /\ InPlace(stk, Last(stk.cis).func, Frame.regs)
         /\ stk.top = Last(stk.cis).func + Len(Frame.regs) /\ stk.top <= Room(stk)
         /\ StackOK(stk) /\ IsSeq(nat) /\ Len(nat) > 1 /\ Len(nat) \in Nat /\ Last(nat) = nat[Len(nat)]
<1>1. /\ StackOK(stk) /\ IsSeq(nat) /\ Len(nat) \in Nat \ {0} /\ Last(nat) = nat[Len(nat)]
      /\ FrameOK(stk, Last(stk.cis), Frame) /\ Ordered(nat)
      /\ TopOK(stk, Last(nat), Len(lua), Last(stk.cis), Frame, rax, rep)
  BY Anywhere
<1>2. nat[Len(nat)].kind = kind /\ rep = FALSE
  BY <1>1 DEF Waiting, LoopInv
<1>3. LeftOK(stk, Last(stk.cis), Frame, rax)
  BY <1>1, <1>2 DEF TopOK
<1>4. /\ Frame.ret /\ stk.top = Last(stk.cis).func + Len(Frame.regs) /\ rax = Len(Frame.regs)
      /\ InPlace(stk, Last(stk.cis).func, Frame.regs) /\ stk.top <= Room(stk)
  BY <1>3 DEF LeftOK
<1>5. Low(Last(stk.cis), Frame) = Last(stk.cis).func
  BY <1>4 DEF Low, Spread
<1>6. Last(stk.cis).func \in Nat /\ IsSeq(Frame.regs) /\ Len(Frame.regs) \in Nat
  BY <1>1, ShapeFacts DEF FrameOK
<1>7. Len(nat) > 1
  <2>1. nat[1].kind = "cfn" /\ kind # "cfn"
    BY <1>1 DEF Ordered, Entry
  <2>2. Len(nat) # 1
    BY <2>1, <1>2
  <2> DEFINE N == Len(nat)
  <2>3. N # 1 /\ N \in Nat \ {0}
    BY <2>2, <1>1
  <2> HIDE DEF N
  <2>4. N > 1
    BY <2>3
  <2> QED BY <2>4 DEF N
<1> QED BY <1>1, <1>2, <1>3, <1>4, <1>5, <1>6, <1>7

(* ccall after a native body.                                              *)
LEMMA CcallReturnsKeeps ==
  ASSUME LoopInv, DataInv, StackHolds, CcallReturns
  PROVE  DataInv'
<1> DEFINE vs == Frame.regs
           low == Last(stk.cis).func
           adj == Adjusted(vs, Last(stk.cis).n)
           k == Len(lua) - 1
           e == "ccall"
<1>1. /\ Waiting(e) /\ stk' = Poscall(stk, rax) /\ lua' = Delivered(vs) /\ nat' = Front(nat)
      /\ rax' = rax /\ rep' = rep /\ fuel' = fuel /\ prog' = prog
  BY DEF CcallReturns
<1>2. ~rep /\ e \in Entry
  BY <1>1, FitParts DEF LoopInv, Waiting, Entry
<1>3. /\ nat[Len(nat)].kind = e /\ rep = FALSE /\ low = Low(Last(stk.cis), Frame) /\ low \in Nat
      /\ IsSeq(vs) /\ Len(vs) \in Nat /\ rax = Len(vs) /\ InPlace(stk, low, vs)
      /\ stk.top = low + Len(vs) /\ stk.top <= Room(stk)
      /\ StackOK(stk) /\ IsSeq(nat) /\ Len(nat) > 1 /\ Len(nat) \in Nat /\ Last(nat) = nat[Len(nat)]
  <2> HIDE DEF e
  <2> QED BY <1>1, <1>2, CameBack
<1>4. PICK link : HoldsOK(stk, lua, nat, link)
  BY DEF DataInv
<1>5. Len(link) = Len(lua) - 1 /\ Last(nat).kind \in {"cfn", "ccall"} /\ Serving(nat, link)
  BY <1>3, <1>4 DEF HoldsOK, Helper
<1>6. Ordered(nat) /\ Len(lua) \in Nat \ {0}
  BY Anywhere
<1>7. k >= 1
  <2>1. nat[Len(nat) - 1].kind \in Under(nat[Len(nat)].kind)
    BY <1>3, <1>6 DEF Ordered
  <2>2. nat[Len(nat) - 1].kind \in Server
    BY <1>3, <2>1 DEF Under, Server
  <2>3. Len(nat) - 1 \in 1..Len(nat)
    BY <1>3
  <2>4. \E j \in 1..Len(link) : link[j] = Len(nat) - 1
    BY <2>2, <2>3, <1>5 DEF Serving
  <2> QED BY <2>4, <1>5, <1>6
<1> HIDE DEF vs
<1>8. Results(stk, vs, low)
  <2>1. Agree(stk, stk, low)
    BY <1>3, AgreeSteps
  <2> DEFINE t == stk.top
             v == Len(vs)
  <2>2. t = low + v /\ low \in Nat /\ v \in Nat
    BY <1>3
  <2> HIDE DEF t, v, low
  <2>3. t - v = low /\ low <= t
    BY <2>2
  <2>4. InPlace(stk, t - v, vs) /\ low + v <= Room(stk)
    BY <2>2, <2>3, <1>3 DEF t
  <2> QED BY <2>1, <2>2, <2>3, <2>4, <1>3 DEF Results, t, v
<1>9. IsSeq(adj) /\ low + Len(adj) <= stk.last + Extra /\ low + Len(vs) <= Room(stk)
  <2>1. k = Len(lua) - 1
    OBVIOUS
  <2>2. adj = Adjusted(vs, Last(stk.cis).n)
    OBVIOUS
  <2>3. low + Len(vs) <= Room(stk)
    BY <1>8 DEF Results
  <2> HIDE DEF k, low, adj
  <2> QED BY <2>1, <2>2, <2>3, <1>3, <1>4, <1>7, ResultsFit
<1>10. PoscallTo(stk, stk', low, adj)
  <2>1. low = Last(stk.cis).func /\ adj = Adjusted(vs, Last(stk.cis).n)
    OBVIOUS
  <2> HIDE DEF low, adj
  <2>2. PoscallTo(stk, Poscall(stk, Len(vs)), low, adj)
    BY <2>1, <1>3, <1>8, <1>9, ResultsPassed
  <2> QED BY <2>2, <1>1, <1>3
<1>11. PoscallTo(stk, stk', low, Adjusted(vs, Last(stk.cis).n))
  BY <1>10
<1>12. rax' = Len(vs) /\ rep' = FALSE
  BY <1>1, <1>3
<1> HIDE DEF low, adj, k
<1> QED BY <1>1, <1>3, <1>4, <1>5, <1>9, <1>11, <1>12, HelperGets

(* The activation on top served the last of them.                          *)
PoppedServer(n, link, u, to) ==
  /\ Len(link) >= 1 /\ link[Len(link)] = Len(n) /\ Serving(u, to) /\ Len(to) = Len(link) - 1
  /\ \A j \in 1..(Len(link) - 1) : to[j] = link[j] /\ u[link[j]] = n[link[j]]

(* As it goes, the others stay.                                            *)
LEMMA ServingLess ==
  ASSUME NEW n, NEW link, Serving(n, link), IsSeq(n), Len(n) >= 1, n[Len(n)].kind \in Server,
         NEW u, u = Front(n), NEW to, to = Front(link)
  PROVE  PoppedServer(n, link, u, to)
<1>1. /\ Len(link) >= 1 /\ link[Len(link)] = Len(n)
      /\ Serving(Front(n), Front(link)) /\ Len(Front(link)) = Len(link) - 1
      /\ \A j \in 1..(Len(link) - 1) : Front(link)[j] = link[j] /\ Front(n)[link[j]] = n[link[j]]
  BY ServingPop
<1> QED BY <1>1 DEF PoppedServer

(* Rt_Call moves the results of a native body the way luaD_poscall does.   *)
LEMMA MovesResults ==
  ASSUME LoopInv, DataInv, StackHolds, RtCallReturns, NEW low, low = Last(stk.cis).func,
         stk.cis[Len(stk.cis) - 1].func + 1 + Last(nat).a = low, Last(nat).n = Last(stk.cis).n, ~rep
  PROVE  stk' = IF Last(stk.cis).n = MULTRET THEN Poscall(stk, Len(Frame.regs))
                ELSE Claimed(Poscall(stk, Len(Frame.regs)))
<1> DEFINE n == stk.top - low
           v == Len(Frame.regs)
           t == stk.top
<1>1. Waiting("rtcall") /\ "rtcall" \in Entry
  BY DEF RtCallReturns, Entry
<1>2. stk.top = low + v /\ low \in Nat /\ v \in Nat
  <2> DEFINE e == "rtcall"
  <2>1. Waiting(e) /\ e \in Entry
    BY <1>1
  <2> HIDE DEF e
  <2> QED BY <2>1, CameBack
<1>3. n = v /\ t - v = low
  <2>1. t = low + v
    BY <1>2
  <2> HIDE DEF t, v
  <2>2. t - low = v /\ t - v = low
    BY <2>1, <1>2
  <2> QED BY <2>2 DEF t
<1> DEFINE vs == Adjusted(Read(stk, low, v), Last(stk.cis).n)
           m == [Topped(Put(stk, low, vs), low + Len(vs)) EXCEPT !.cis = Front(@)]
<1>4. Poscall(stk, v) = m
  BY <1>3 DEF Poscall, t
<1>5. stk' = IF Last(stk.cis).n = MULTRET THEN m ELSE Claimed(m)
  BY <1>3 DEF RtCallReturns
<1> QED BY <1>4, <1>5

(* The results of a native function become registers of a native caller.   *)
LEMMA RtCallReturnsKeeps ==
  ASSUME LoopInv, DataInv, StackHolds, RtCallReturns
  PROVE  DataInv'
<1> DEFINE vs == Frame.regs
           low == Last(stk.cis).func
           n == Last(stk.cis).n
           adj == Adjusted(vs, n)
           k == Len(lua) - 1
           e == "rtcall"
           m == Poscall(stk, Len(vs))
           x == Last(nat)
           c == stk.cis[k]
           f == lua[k]
           u == Front(nat)
<1>1. /\ Waiting(e) /\ lua' = Delivered(vs) /\ nat' = u
      /\ rax' = -1 /\ rep' = rep /\ fuel' = fuel /\ prog' = prog
  BY DEF RtCallReturns, ToBody
<1>2. ~rep /\ e \in Entry
  BY <1>1, FitParts DEF LoopInv, Waiting, Entry
<1>3. /\ nat[Len(nat)].kind = e /\ rep = FALSE /\ low = Low(Last(stk.cis), Frame) /\ low \in Nat
      /\ IsSeq(vs) /\ Len(vs) \in Nat /\ rax = Len(vs) /\ InPlace(stk, low, vs)
      /\ stk.top = low + Len(vs) /\ stk.top <= Room(stk)
      /\ StackOK(stk) /\ IsSeq(nat) /\ Len(nat) > 1 /\ Len(nat) \in Nat /\ x = nat[Len(nat)]
  <2> HIDE DEF e
  <2> QED BY <1>1, <1>2, CameBack
<1>4. PICK link : HoldsOK(stk, lua, nat, link)
  BY DEF DataInv
<1>5. Len(link) = Len(lua) - 1 /\ Serving(nat, link) /\ x.kind = "rtcall" /\ x.kind \in Server
  BY <1>3, <1>4 DEF HoldsOK, Helper, Server
<1>6. Ordered(nat) /\ Len(lua) \in Nat \ {0} /\ IsSeq(stk.cis) /\ Len(stk.cis) = Len(lua)
      /\ prog \in Programs /\ fuel \in Nat
  BY Anywhere
<1> DEFINE to == Front(link)
<1>7. /\ Len(link) >= 1 /\ link[Len(link)] = Len(nat) /\ Serving(u, to) /\ Len(to) = Len(link) - 1
      /\ \A j \in 1..(Len(link) - 1) : to[j] = link[j] /\ u[link[j]] = nat[link[j]]
  <2>1. IsSeq(nat) /\ Len(nat) >= 1 /\ nat[Len(nat)].kind \in Server /\ u = Front(nat) /\ to = Front(link)
    BY <1>3, <1>5
  <2> HIDE DEF u, to
  <2>2. PoppedServer(nat, link, u, to)
    BY <2>1, <1>5, ServingLess
  <2> QED BY <2>2 DEF PoppedServer
<1> HIDE DEF to
<1>8. k >= 1 /\ k \in Nat /\ Len(link) = k /\ nat[link[k]] = x /\ k \in 1..(Len(lua) - 1)
  BY <1>3, <1>5, <1>6, <1>7
<1>9. u[Len(u)].kind = "body" /\ Len(u) = Len(nat) - 1
  <2>1. Len(nat) \in 2..Len(nat)
    BY <1>3
  <2>2. nat[Len(nat) - 1].kind \in Under(nat[Len(nat)].kind)
    BY <2>1, <1>6 DEF Ordered
  <2>3. nat[Len(nat) - 1].kind = "body"
    BY <2>2, <1>3 DEF Under, Entry, Helper
  <2>4. Shorter(nat, u)
    <3>1. Len(nat) >= 1
      BY <1>3
    <3> QED BY <3>1, <1>3, FrontShorter
  <2>5. Len(u) = Len(nat) - 1 /\ Len(u) \in 1..Len(u)
    BY <2>4, <1>3 DEF Shorter
  <2>6. u[Len(u)] = nat[Len(u)]
    BY <2>4, <2>5 DEF Shorter
  <2> QED BY <2>3, <2>5, <2>6
<1> HIDE DEF u, vs, x
<1>10. OneOK(stk, x, k, c, f, n, low) /\ c.top <= Room(stk) /\ n \in Int /\ n >= -1
  <2>1. k = Len(lua) - 1 /\ k >= 1
    BY <1>8
  <2> HIDE DEF k
  <2>2. OneOK(stk, nat[link[k]], k, stk.cis[k], lua[k], n, Low(Last(stk.cis), Frame)) /\ stk.cis[k].top <= Room(stk)
        /\ n \in Int /\ n >= -1
    BY <2>1, <1>4, Beneath
  <2> QED BY <2>2, <1>3, <1>8
<1>11. DealOK(stk, x, k, c, f) /\ WaitOK(stk, x, c, f, n, low)
  BY <1>10 DEF OneOK
<1>12. low = c.func + 1 + x.a /\ x.n = n /\ (n >= 0 <=> f.open = -1) /\ f.ready /\ ~f.ret /\ IsLua(f.fn)
  <2>1. low = c.func + 1 + x.a /\ x.n = n /\ (n >= 0 <=> f.open = -1) /\ f.ready /\ ~f.ret
    BY <1>5, <1>11 DEF DealOK, WaitOK
  <2>2. IsLua(f.fn) \/ FnInfo[f.fn].kind = "rtcall"
    BY <1>5, <1>11 DEF DealOK
  <2>3. f.fn \in DOMAIN FnInfo
    BY <1>10 DEF OneOK, FrameOK, Shape
  <2>4. FnInfo[f.fn].kind # "rtcall"
    BY <2>3, FnFacts
  <2> QED BY <2>1, <2>2, <2>4
<1>13. stk' = IF n = MULTRET THEN m ELSE Claimed(m)
  <2>1. stk.cis[Len(stk.cis) - 1].func + 1 + Last(nat).a = low /\ Last(nat).n = Last(stk.cis).n /\ ~rep
    BY <1>2, <1>6, <1>12 DEF x
  <2>2. low = Last(stk.cis).func
    OBVIOUS
  <2> HIDE DEF low
  <2> QED BY <2>1, <2>2, MovesResults DEF vs
<1>14. low + Len(vs) <= Room(stk)
  BY <1>3
<1>15. IsSeq(adj) /\ low + Len(adj) <= stk.last + Extra
  <2>1. k = Len(lua) - 1 /\ adj = Adjusted(vs, Last(stk.cis).n)
    OBVIOUS
  <2> HIDE DEF k, low, adj
  <2> QED BY <2>1, <1>3, <1>4, <1>8, <1>14, ResultsFit
<1>16. PoscallTo(stk, m, low, adj)
  <2>1. low = Last(stk.cis).func /\ adj = Adjusted(vs, Last(stk.cis).n)
    OBVIOUS
  <2> DEFINE t == stk.top
             v == Len(vs)
  <2>2. t = low + v /\ low \in Nat /\ v \in Nat
    BY <1>3
  <2> HIDE DEF t, v, low, adj
  <2>3. t - v = low
    BY <2>2
  <2>4. InPlace(stk, stk.top - Len(vs), vs)
    BY <2>3, <1>3 DEF t, v
  <2> QED BY <2>1, <2>4, <1>3, <1>15, PoscallDoes
<1>17. StackOK(m) /\ m.cis = Front(stk.cis) /\ m.top = low + Len(adj) /\ Agree(stk, m, low) /\ InPlace(m, low, adj)
  BY <1>16 DEF PoscallTo
<1> HIDE DEF m
<1>18. PICK f1 : /\ Delivered(vs) = Append(SubSeq(lua, 1, k - 1), f1)
                 /\ Delivery(stk, x, k, c, f, n, low, vs, m, f1)
  <2>1. /\ Agree(stk, m, low) /\ InPlace(m, low, Adjusted(vs, Last(stk.cis).n))
        /\ m.top = low + Len(Adjusted(vs, Last(stk.cis).n))
    BY <1>17
  <2>2. k = Len(lua) - 1 /\ k >= 1 /\ low = Low(Last(stk.cis), Frame)
    BY <1>3, <1>8
  <2> HIDE DEF k, low
  <2>3. \E f1 : /\ Delivered(vs) = Append(SubSeq(lua, 1, k - 1), f1)
                /\ Delivery(stk, nat[link[k]], k, stk.cis[k], lua[k], Last(stk.cis).n, low, vs, m, f1)
    BY <2>1, <2>2, <1>3, <1>4, <1>14, Delivers
  <2> QED BY <2>3, <1>8
<1> HIDE DEF adj
<1>19. k = Len(lua) - 1
  OBVIOUS
<1> HIDE DEF k
<1>20. Arrival(link, to, k, vs, m, f1)
  <2>1. \A j \in 1..(k - 1) : u[to[j]] = nat[link[j]]
    BY <1>7, <1>8
  <2>2. Len(to) = IF u[Len(u)].kind \in Helper \cup {"ctail"} THEN k ELSE k - 1
    BY <1>7, <1>8, <1>9 DEF Helper
  <2>3. Delivery(stk, nat[link[k]], k, stk.cis[k], lua[k], Last(stk.cis).n, Low(Last(stk.cis), Frame), vs, m, f1)
    BY <1>3, <1>8, <1>18
  <2> QED BY <2>1, <2>2, <2>3, <1>4, <1>7, <1>8, <1>19 DEF Arrival, u
<1>21. SameSlots(m, stk') /\ stk'.cis = Front(stk.cis)
  <2>1. CASE n = MULTRET
    BY <2>1, <1>13, <1>17 DEF SameSlots
  <2>2. CASE n # MULTRET
    <3> DEFINE t == Last(m.cis).top
    <3>1. stk' = Topped(m, t)
      BY <2>2, <1>13 DEF Claimed
    <3>2. t \in Nat
      <4>1. Len(m.cis) = k
        <5>1. Len(stk.cis) >= 1
          BY <1>6
        <5>2. Shorter(stk.cis, Front(stk.cis))
          BY <5>1, <1>6, FrontShorter
        <5> QED BY <5>2, <1>6, <1>17, <1>19 DEF Shorter
      <4>2. Last(m.cis) = c
        <5>1. Len(stk.cis) >= 1
          BY <1>6
        <5>2. Shorter(stk.cis, Front(stk.cis))
          BY <5>1, <1>6, FrontShorter
        <5>3. m.cis[k] = stk.cis[k]
          BY <5>2, <4>1, <1>8, <1>17 DEF Shorter
        <5> QED BY <5>3, <4>1 DEF Last
      <4>3. c.top \in Nat
        BY <1>10, ShapeFacts DEF OneOK, FrameOK
      <4> QED BY <4>2, <4>3
    <3> HIDE DEF t
    <3> QED BY <3>1, <3>2, <1>17, ToppedDoes
  <2> QED BY <2>1, <2>2
<1>22. /\ HoldsOK(stk', lua', nat', to) /\ Len(lua') = k /\ lua'[k] = f1 /\ stk'.cis[k] = c
  <2>1. Frees(m, stk', k, f1, lua')
    BY <1>1, <1>18, <1>21 DEF Frees
  <2>2. Landed(stk', lua', to, k, f1)
    BY <2>1, <1>20, Arrived
  <2> QED BY <2>2, <1>1 DEF Landed, u
<1>23. n # MULTRET => stk'.top = c.top
  <2> SUFFICES ASSUME n # MULTRET PROVE stk'.top = c.top
    OBVIOUS
  <2>1. stk' = Topped(m, Last(m.cis).top)
    BY <1>13 DEF Claimed
  <2>2. Last(m.cis) = c
    <3>1. Len(stk'.cis) = k /\ m.cis = stk'.cis
      BY <1>17, <1>21, <1>22 DEF HoldsOK
    <3> QED BY <3>1, <1>22 DEF Last
  <2> DEFINE t == Last(m.cis).top
  <2>3. t \in Nat /\ t = c.top
    BY <2>2, <1>10, ShapeFacts DEF OneOK, FrameOK
  <2>4. stk' = Topped(m, t)
    BY <2>1
  <2> HIDE DEF t
  <2>5. stk'.top = t
    BY <2>3, <2>4, <1>17, ToppedDoes
  <2> QED BY <2>3, <2>5
<1> HIDE DEF c, f, n, low
<1>24. /\ f1.fn = f.fn /\ f1.ready = f.ready /\ f1.ret = f.ret /\ f1.open = f.open
  BY <1>18 DEF Delivery
<1>25. RegsOK(stk', c, f1)
  <2>1. RegsOK(m, c, f1)
    BY <1>5, <1>18, DeliveredRegs
  <2> QED BY <2>1, <1>17, <1>21, SlotsKept DEF RegsOK
<1>26. f.open \in Int /\ f.open >= -1
  BY <1>10, ShapeFacts DEF OneOK, FrameOK
<1>27. Fits(f1)
  <2> SUFFICES ASSUME f1.open = -1 PROVE Len(f1.regs) <= FnInfo[f1.fn].size
    BY DEF Fits
  <2>1. x.kind \in Helper \cup {"rtcall"} /\ f.open = -1 /\ IsLua(f.fn) /\ n >= 0
    BY <1>5, <1>12, <1>24
  <2>2. Len(f1.regs) <= FnInfo[f.fn].size
    BY <2>1, <1>18, DeliveredRoom
  <2> QED BY <2>2, <1>24
<1>28. stk'.top <= Room(stk') /\ (f1.open >= 0 => stk'.top = End(c, f1))
  <2>1. CASE n = MULTRET
    <3>1. stk' = m /\ n = -1
      BY <2>1, <1>13 DEF MULTRET
    <3>2. m.top <= Room(m)
      BY <3>1, <1>18, DeliveredRoom
    <3>3. m.top = End(c, f1)
      <4>1. x.kind \notin {"meta", "ctail"} /\ x.kind # "close"
        BY <1>5
      <4> QED BY <4>1, <1>18, DeliveredRegs
    <3> QED BY <3>1, <3>2, <3>3
  <2>2. CASE n # MULTRET
    <3>1. n >= 0
      BY <2>2, <1>10 DEF MULTRET
    <3>2. ~(f1.open >= 0)
      BY <3>1, <1>12, <1>24
    <3>3. Room(stk) <= Room(stk')
      <4> DEFINE a == stk.last
                 b == stk'.last
      <4>1. stk'.last = m.last /\ stk.last <= m.last /\ stk.last \in Nat /\ m.last \in Nat /\ Extra \in Nat
        BY <1>3, <1>17, <1>21, ExtraNat DEF SameSlots, Agree, StackOK
      <4>2. a <= b /\ a \in Nat /\ b \in Nat /\ Room(stk) = a + Extra - 3 /\ Room(stk') = b + Extra - 3
        BY <4>1 DEF Room
      <4> HIDE DEF a, b
      <4> QED BY <4>1, <4>2
    <3>4. stk'.top = c.top /\ c.top <= Room(stk) /\ c.top \in Nat
      BY <2>2, <1>10, <1>23, ShapeFacts DEF OneOK, FrameOK
    <3>5. Room(stk) \in Int /\ Room(stk') \in Int
      <4> DEFINE a == stk.last
                 b == stk'.last
      <4>1. a \in Nat /\ b \in Nat /\ Extra \in Nat
        BY <1>3, <1>21, ExtraNat DEF SameSlots, StackOK
      <4>2. Room(stk) = a + Extra - 3 /\ Room(stk') = b + Extra - 3
        BY DEF Room
      <4> HIDE DEF a, b
      <4> QED BY <4>1, <4>2
    <3>6. stk'.top <= Room(stk')
      <4> DEFINE a == c.top
                 b == Room(stk)
                 d == Room(stk')
      <4>1. a <= b /\ b <= d /\ a \in Nat /\ b \in Int /\ d \in Int
        BY <3>3, <3>4, <3>5
      <4> HIDE DEF a, b, d
      <4>2. a <= d
        BY <4>1
      <4> QED BY <4>2, <3>4 DEF a, d
    <3> QED BY <3>2, <3>6
  <2> QED BY <2>1, <2>2
<1>29. RunOK(stk', c, f1)
  BY <1>12, <1>24, <1>25, <1>27, <1>28 DEF RunOK
<1>30. TopOK(stk', u[Len(u)], k, c, f1, -1, FALSE)
  <2>1. ~f1.ret
    BY <1>12, <1>24
  <2> QED BY <2>1, <1>9, <1>29 DEF TopOK, Entry, Helper
<1>31. TopOK(stk', nat'[Len(nat')], Len(lua'), stk'.cis[Len(lua')], lua'[Len(lua')], rax', rep')
  BY <1>1, <1>3, <1>22, <1>30
<1>32. prog' \in Programs /\ fuel' \in Nat
  BY <1>1, <1>6
<1>33. \E l : HoldsOK(stk', lua', nat', l)
  BY <1>22
<1> QED BY <1>31, <1>32, <1>33 DEF DataInv

(* A helper goes on, after what it called has come back.                   *)
Helping(kind, link) ==
  /\ HoldsOK(stk, lua, nat, link) /\ Len(link) = Len(lua) /\ kind \in Helper
  /\ StackOK(stk) /\ IsSeq(lua) /\ Len(lua) \in Nat \ {0} /\ IsSeq(stk.cis) /\ Len(stk.cis) = Len(lua)
  /\ Frame = lua[Len(lua)] /\ Last(stk.cis) = stk.cis[Len(lua)] /\ Last(nat).kind = kind
  /\ FrameOK(stk, Last(stk.cis), Frame) /\ DealOK(stk, Last(nat), Len(lua), Last(stk.cis), Frame)
  /\ MidOK(stk, Last(nat), Last(stk.cis), Frame, rax)
  /\ rep = FALSE /\ Frame.ready /\ ~Frame.ret /\ Last(stk.cis).top <= Room(stk)
  /\ PoppedServer(nat, link, Front(nat), Front(link))
  /\ Front(nat)[Len(Front(nat))].kind = (IF kind \in {"calls", "pcall"} THEN "cfn" ELSE "body")
  /\ prog \in Programs /\ fuel \in Nat

(* What is known where one does.                                           *)
LEMMA HelperBack ==
  ASSUME LoopInv, DataInv, StackHolds, NEW kind \in Helper, Waiting(kind)
  PROVE  \E link : Helping(kind, link)
<1>1. rax >= 0 /\ Last(nat).kind = kind
  BY DEF Waiting
<1>2. /\ StackOK(stk) /\ IsSeq(lua) /\ Len(lua) \in Nat \ {0} /\ IsSeq(stk.cis) /\ Len(stk.cis) = Len(lua)
      /\ IsSeq(nat) /\ Len(nat) \in Nat \ {0} /\ Last(nat) = nat[Len(nat)]
      /\ Frame = lua[Len(lua)] /\ Last(stk.cis) = stk.cis[Len(lua)]
      /\ FrameOK(stk, Last(stk.cis), Frame) /\ Last(stk.cis).top <= Room(stk)
      /\ prog \in Programs /\ fuel \in Nat /\ Ordered(nat)
      /\ TopOK(stk, Last(nat), Len(lua), Last(stk.cis), Frame, rax, rep)
  BY Anywhere
<1>3. PICK link : HoldsOK(stk, lua, nat, link)
  BY DEF DataInv
<1>4. rep = FALSE
  <2>1. rep \in BOOLEAN /\ (rep => nat[Len(nat)].kind = "drive")
    BY DEF LoopInv
  <2> QED BY <2>1, <1>1, <1>2 DEF Helper
<1>5. /\ DealOK(stk, Last(nat), Len(lua), Last(stk.cis), Frame)
      /\ MidOK(stk, Last(nat), Last(stk.cis), Frame, rax)
  BY <1>1, <1>2 DEF TopOK
<1>6. Frame.ready /\ ~Frame.ret
  BY <1>5 DEF DealOK
<1>7. Len(link) = Len(lua) /\ Serving(nat, link)
  BY <1>1, <1>2, <1>3 DEF HoldsOK
<1>8. PoppedServer(nat, link, Front(nat), Front(link))
  <2> DEFINE u == Front(nat)
             to == Front(link)
  <2>1. IsSeq(nat) /\ Len(nat) >= 1 /\ nat[Len(nat)].kind \in Server /\ u = Front(nat) /\ to = Front(link)
    BY <1>1, <1>2 DEF Server
  <2> HIDE DEF u, to
  <2>2. PoppedServer(nat, link, u, to)
    BY <2>1, <1>7, ServingLess
  <2> QED BY <2>2 DEF u, to
<1>9. Front(nat)[Len(Front(nat))].kind = (IF kind \in {"calls", "pcall"} THEN "cfn" ELSE "body")
  <2>1. Len(nat) > 1
    <3>1. nat[1].kind = "cfn" /\ nat[Len(nat)].kind # "cfn"
      BY <1>1, <1>2 DEF Ordered, Helper
    <3> DEFINE k == Len(nat)
    <3>2. k # 1 /\ k \in Nat \ {0}
      BY <3>1, <1>2
    <3> HIDE DEF k
    <3>3. k > 1
      BY <3>2
    <3> QED BY <3>3 DEF k
  <2>2. Len(nat) \in 2..Len(nat)
    BY <2>1, <1>2
  <2>3. nat[Len(nat) - 1].kind \in Under(nat[Len(nat)].kind)
    BY <2>2, <1>2 DEF Ordered
  <2>4. nat[Len(nat) - 1].kind = (IF kind \in {"calls", "pcall"} THEN "cfn" ELSE "body")
    BY <2>3, <1>1, <1>2 DEF Under, Entry, Helper
  <2> DEFINE u == Front(nat)
  <2>5. Shorter(nat, u)
    <3>1. Len(nat) >= 1
      BY <1>2
    <3> QED BY <3>1, <1>2, FrontShorter
  <2>6. Len(u) = Len(nat) - 1 /\ Len(u) \in 1..Len(u)
    BY <2>1, <2>5, <1>2 DEF Shorter
  <2>7. u[Len(u)] = nat[Len(u)]
    BY <2>5, <2>6 DEF Shorter
  <2> QED BY <2>4, <2>6, <2>7
<1>10. Helping(kind, link)
  BY <1>1, <1>2, <1>3, <1>4, <1>5, <1>6, <1>7, <1>8, <1>9 DEF Helping
<1> QED BY <1>10

(* The helper has done its work.                                           *)
Resumes ==
  lua' = lua /\ nat' = Front(nat) /\ rax' = -1 /\ rep' = rep /\ prog' = prog /\ fuel' = fuel

(* What it leaves to the function that called it, on stack m.              *)
HandsBack(m, kind, c1) ==
  /\ (m.cis = stk.cis /\ c1 = Last(stk.cis)) \/ m.cis = Append(Front(stk.cis), c1)
  /\ Agree(stk, m, Low(Last(stk.cis), Frame)) /\ c1.n = Last(stk.cis).n
  /\ Low(c1, Frame) = Low(Last(stk.cis), Frame) /\ FrameOK(m, c1, Frame)
  /\ kind \in {"calls", "pcall"} => OpOK(m, c1, Frame)
  /\ kind \notin {"calls", "pcall"} => RunOK(m, c1, Frame)

(* The function that called the helper goes on.                            *)
LEMMA CallerGoesOn ==
  ASSUME NEW kind, NEW link, Helping(kind, link), NEW c1, HandsBack(stk', kind, c1), Resumes
  PROVE  DataInv'
<1> DEFINE K == Len(lua)
           to == Front(link)
<1>1. /\ HoldsOK(stk, lua, nat, link) /\ Len(link) = K
      /\ IsSeq(lua) /\ K \in Nat \ {0} /\ IsSeq(stk.cis) /\ Len(stk.cis) = K
      /\ Frame = lua[K] /\ Last(stk.cis) = stk.cis[K] /\ rep = FALSE /\ prog \in Programs /\ fuel \in Nat
      /\ Frame.ready /\ ~Frame.ret /\ PoppedServer(nat, link, nat', to)
      /\ nat'[Len(nat')].kind = (IF kind \in {"calls", "pcall"} THEN "cfn" ELSE "body")
  BY DEF Helping, Resumes
<1>1b. /\ (stk'.cis = stk.cis /\ c1 = Last(stk.cis)) \/ stk'.cis = Append(Front(stk.cis), c1)
       /\ Agree(stk, stk', Low(Last(stk.cis), Frame)) /\ c1.n = Last(stk.cis).n
       /\ Low(c1, Frame) = Low(Last(stk.cis), Frame) /\ FrameOK(stk', c1, Frame)
       /\ kind \in {"calls", "pcall"} => OpOK(stk', c1, Frame)
       /\ kind \notin {"calls", "pcall"} => RunOK(stk', c1, Frame)
  BY DEF HandsBack
<1>1a. lua' = lua /\ rax' = -1 /\ rep' = FALSE /\ prog' = prog /\ fuel' = fuel
  BY <1>1 DEF Resumes
<1>2. SameBelow(stk.cis, stk'.cis) /\ stk'.cis[K] = c1
  <2> DEFINE s == stk.cis
             t == stk'.cis
  <2>1. IsSeq(s) /\ Len(s) >= 1 /\ Len(s) = K /\ Last(stk.cis) = s[K]
    BY <1>1
  <2>2. (t = s /\ c1 = s[K]) \/ t = Append(Front(s), c1)
    BY <1>1, <1>1b
  <2> HIDE DEF s, t, K
  <2>3. SameBelow(s, s) /\ SameBelow(s, Append(Front(s), c1)) /\ Append(Front(s), c1)[Len(s)] = c1
    BY <2>1, SameBelowNow
  <2>4. SameBelow(s, t) /\ t[K] = c1
    BY <2>1, <2>2, <2>3
  <2> QED BY <2>4 DEF s, t
<1>3. SameBelow(lua, lua') /\ lua'[K] = Frame /\ Len(lua') = K
  <2>1. Len(lua) >= 1
    BY <1>1
  <2>2. SameBelow(lua, lua)
    BY <2>1, <1>1, SameBelowNow
  <2> QED BY <2>2, <1>1, <1>1a
<1>4. Serving(nat', to) /\ Len(to) = K - 1 /\ \A j \in 1..(K - 1) : nat'[to[j]] = nat[link[j]]
  BY <1>1 DEF PoppedServer
<1> HIDE DEF to
<1>5. TopStep(stk, lua, nat, link, stk', lua', nat', to)
  BY <1>1, <1>1b, <1>2, <1>3, <1>4 DEF TopStep, Helper
<1>6. TopOK(stk', nat'[Len(nat')], K, c1, Frame, rax', rep')
  BY <1>1, <1>1a, <1>1b DEF TopOK, Helper, Entry
<1>7. fuel' \in Nat
  BY <1>1, <1>1a
<1>8. TopOK(stk', nat'[Len(nat')], Len(lua'), stk'.cis[Len(lua')], lua'[Len(lua')], rax', rep')
  BY <1>2, <1>3, <1>6
<1>9. prog \in Programs /\ prog' = prog
  BY <1>1, <1>1a
<1>10. DataInv'
  BY <1>5, <1>7, <1>8, <1>9, TopGoesOn
<1> QED BY <1>10

(* A helper that moves nothing but the top.                                *)
LEMMA HelperTop ==
  ASSUME NEW kind \in {"slow", "tfor", "close"}, NEW link, Helping(kind, link),
         SameSlots(stk, stk'), stk'.cis = stk.cis, stk'.top <= Room(stk),
         Frame.open >= 0 => stk'.top = End(Last(stk.cis), Frame),
         Resumes
  PROVE  DataInv'
<1> DEFINE c == Last(stk.cis)
           low == Low(c, Frame)
           b == c.func + 1
<1>1. /\ StackOK(stk) /\ FrameOK(stk, c, Frame) /\ DealOK(stk, Last(nat), Len(lua), c, Frame)
      /\ MidOK(stk, Last(nat), c, Frame, rax) /\ Last(nat).kind = kind /\ ~Frame.ret /\ Frame.ready
  BY DEF Helping
<1>2. Agree(stk, stk', low) /\ Agree(stk, stk', b)
  BY <1>1, SlotsKept
<1>3. FrameOK(stk', c, Frame)
  <2>1. c.func \in Nat /\ b \in Int /\ c.func < b
    BY <1>1, ShapeFacts DEF FrameOK
  <2> HIDE DEF c, b
  <2> QED BY <2>1, <1>1, <1>2, FrameStays
<1>4. RegsOK(stk', c, Frame)
  <2>1. RegsOK(stk, c, Frame)
    BY <1>1 DEF MidOK
  <2> QED BY <2>1, <1>1, SlotsKept DEF RegsOK
<1>5. Fits(Frame)
  BY <1>1 DEF MidOK
<1>6. IsLua(Frame.fn)
  <2>1. Frame.fn \in DOMAIN FnInfo
    BY <1>1, ShapeFacts DEF FrameOK
  <2> QED BY <2>1, <1>1, FnFacts DEF DealOK
<1>7. Room(stk') = Room(stk)
  BY DEF SameSlots, Room
<1>8. RunOK(stk', c, Frame)
  BY <1>1, <1>4, <1>5, <1>6, <1>7 DEF RunOK
<1>9. stk'.cis = stk.cis /\ c = Last(stk.cis)
  OBVIOUS
<1> HIDE DEF c
<1>10. HandsBack(stk', kind, c)
  BY <1>2, <1>3, <1>8, <1>9 DEF HandsBack
<1> QED BY <1>10, CallerGoesOn

(* The slow path of Rt_Call.                                               *)
LEMMA SlowReturnsKeeps ==
  ASSUME LoopInv, DataInv, StackHolds, SlowReturns
  PROVE  DataInv'
<1> DEFINE kind == "slow"
           c == Last(stk.cis)
           n == Last(nat).n
<1>1. /\ Waiting(kind) /\ Resumes
      /\ kind \in Helper /\ kind \in {"slow", "tfor", "close"}
  BY DEF SlowReturns, ToBody, Resumes, Helper
<1> HIDE DEF kind
<1>2. PICK link : Helping(kind, link)
  BY <1>1, HelperBack
<1>3. /\ StackOK(stk) /\ DealOK(stk, Last(nat), Len(lua), c, Frame) /\ MidOK(stk, Last(nat), c, Frame, rax)
      /\ Last(nat).kind = "slow" /\ c.top <= Room(stk) /\ FrameOK(stk, c, Frame)
  BY <1>2 DEF Helping, kind
<1>4. n = Frame.want.n /\ (Frame.want.n >= 0 <=> Frame.open = -1) /\ Frame.want.n \in Int /\ Frame.want.n >= -1
  BY <1>3 DEF DealOK
<1>5. stk.top = End(c, Frame) /\ stk.top <= Room(stk)
  BY <1>3 DEF MidOK
<1>6. Frame.open \in Int /\ c.top \in Nat
  BY <1>3, ShapeFacts DEF FrameOK
<1>7. CASE n = MULTRET
  <2>1. stk' = stk
    BY <1>7 DEF SlowReturns
  <2>2. SameSlots(stk, stk') /\ stk'.cis = stk.cis /\ stk'.top <= Room(stk)
        /\ stk'.top = End(Last(stk.cis), Frame)
    BY <2>1, <1>3, <1>5 DEF SameSlots
  <2> QED BY <2>2, <1>1, <1>2, HelperTop
<1>8. CASE n # MULTRET
  <2> DEFINE t == c.top
  <2>1. stk' = Topped(stk, t)
    BY <1>8 DEF SlowReturns, Claimed
  <2>2. ~(Frame.open >= 0)
    BY <1>4, <1>6, <1>8 DEF MULTRET
  <2>3. t \in Nat /\ t <= Room(stk)
    BY <1>3, <1>6
  <2> HIDE DEF t
  <2>4. SameSlots(stk, stk') /\ stk'.cis = stk.cis /\ stk'.top <= Room(stk)
    BY <2>1, <2>3, <1>3, ToppedDoes
  <2> QED BY <2>2, <2>4, <1>1, <1>2, HelperTop
<1> QED BY <1>7, <1>8

(* The generic for.                                                        *)
LEMMA TForReturnsKeeps ==
  ASSUME LoopInv, DataInv, StackHolds, TForReturns
  PROVE  DataInv'
<1> DEFINE kind == "tfor"
           c == Last(stk.cis)
<1>1. /\ Waiting(kind) /\ Resumes /\ stk' = stk
      /\ kind \in Helper /\ kind \in {"slow", "tfor", "close"}
  BY DEF TForReturns, ToBody, Resumes, Helper
<1> HIDE DEF kind
<1>2. PICK link : Helping(kind, link)
  BY <1>1, HelperBack
<1>3. StackOK(stk) /\ MidOK(stk, Last(nat), c, Frame, rax) /\ Last(nat).kind = "tfor"
  BY <1>2 DEF Helping, kind
<1>4. stk.top = End(c, Frame) /\ stk.top <= Room(stk)
  BY <1>3 DEF MidOK
<1>5. SameSlots(stk, stk') /\ stk'.cis = stk.cis /\ stk'.top <= Room(stk)
      /\ stk'.top = End(Last(stk.cis), Frame)
  BY <1>1, <1>3, <1>4 DEF SameSlots
<1> QED BY <1>1, <1>2, <1>5, HelperTop

(* The closer of a to-be-closed variable: the top is where it was.         *)
LEMMA CloseReturnsKeeps ==
  ASSUME LoopInv, DataInv, StackHolds, CloseReturns
  PROVE  DataInv'
<1> DEFINE kind == "close"
           c == Last(stk.cis)
           t == Last(nat).n
<1>1. /\ Waiting(kind) /\ Resumes /\ stk' = Topped(stk, t)
      /\ kind \in Helper /\ kind \in {"slow", "tfor", "close"}
  BY DEF CloseReturns, ToBody, Resumes, Helper
<1> HIDE DEF kind
<1>2. PICK link : Helping(kind, link)
  BY <1>1, HelperBack
<1>3. /\ StackOK(stk) /\ DealOK(stk, Last(nat), Len(lua), c, Frame) /\ MidOK(stk, Last(nat), c, Frame, rax)
      /\ Last(nat).kind = "close"
  BY <1>2 DEF Helping, kind
<1>4. t \in Nat /\ t <= Room(stk) /\ (Frame.open >= 0 => t = c.func + 1 + Len(Frame.want.pre))
  BY <1>3 DEF DealOK
<1>5. Len(Frame.regs) = Len(Frame.want.pre)
  BY <1>3 DEF MidOK
<1>6. Frame.open >= 0 => t = End(c, Frame)
  BY <1>4, <1>5 DEF End
<1> HIDE DEF t
<1>7. SameSlots(stk, stk') /\ stk'.cis = stk.cis /\ stk'.top = t
  BY <1>1, <1>3, <1>4, ToppedDoes
<1>8. stk'.top <= Room(stk) /\ (Frame.open >= 0 => stk'.top = End(Last(stk.cis), Frame))
  BY <1>4, <1>6, <1>7
<1> QED BY <1>1, <1>2, <1>7, <1>8, HelperTop

(* lua_callk and pcall raise the ceiling to what has come back.            *)
LEMMA CResumesKeeps ==
  ASSUME LoopInv, DataInv, StackHolds, CResumes
  PROVE  DataInv'
<1> DEFINE c == Last(stk.cis)
           t == Max({c.top, stk.top})
           c1 == [c EXCEPT !.top = t]
<1>1. /\ \E kind \in {"calls", "pcall"} : Waiting(kind)
      /\ Resumes /\ stk' = SetCI(stk, c1)
  BY DEF CResumes, ToBody, Resumes
<1>2. PICK kind \in {"calls", "pcall"} : Waiting(kind)
  BY <1>1
<1>3. kind \in Helper
  BY DEF Helper
<1>4. PICK link : Helping(kind, link)
  BY <1>2, <1>3, HelperBack
<1>5. /\ StackOK(stk) /\ FrameOK(stk, c, Frame) /\ DealOK(stk, Last(nat), Len(lua), c, Frame)
      /\ MidOK(stk, Last(nat), c, Frame, rax) /\ Last(nat).kind = kind /\ ~Frame.ret /\ Frame.ready
  BY <1>4 DEF Helping
<1>6. /\ ~IsLua(Frame.fn) /\ FnInfo[Frame.fn].kind = kind /\ Frame.open = 0
      /\ RegsOK(stk, c, Frame) /\ stk.top = End(c, Frame) /\ stk.top <= Room(stk)
  BY <1>5 DEF DealOK, MidOK
<1>7. Shape(c, Frame) /\ Placed(stk, c, Frame) /\ InfoOK(c) /\ Low(c, Frame) \in Nat
  BY <1>5 DEF FrameOK, Shape
<1>8. t \in Nat
  <2>1. c.top \in Nat /\ stk.top \in Nat
    BY <1>5, <1>7 DEF InfoOK, StackOK
  <2> DEFINE a == c.top
             b == stk.top
  <2>2. a \in Nat /\ b \in Nat
    BY <2>1
  <2> HIDE DEF a, b
  <2>3. Max({a, b}) \in Nat
    BY <2>2, MaxOfTwo
  <2> QED BY <2>3 DEF a, b
<1> HIDE DEF t
<1>9. /\ InfoOK(c1) /\ c1.func = c.func /\ c1.n = c.n /\ c1.nextra = c.nextra
  BY <1>7, <1>8 DEF InfoOK
<1> HIDE DEF c, c1
<1>10. Low(c1, Frame) = Low(c, Frame) /\ End(c1, Frame) = End(c, Frame)
  BY <1>9 DEF Low, End
<1>11. Shape(c1, Frame)
  BY <1>6, <1>7, <1>9, <1>10 DEF Shape
<1>12. SameSlots(stk, stk') /\ stk'.top = stk.top /\ stk'.cis = Append(Front(stk.cis), c1)
  BY <1>1, <1>5, SetCIDoes
<1>13. \A b : Agree(stk, stk', b)
  BY <1>5, <1>12, SlotsKept
<1>14. Placed(stk', c1, Frame)
  <2>1. ~Spread(Frame)
    <3>1. Frame.fn \in DOMAIN FnInfo
      BY <1>7 DEF Shape
    <3> QED BY <3>1, <1>6, FnFacts DEF Spread
  <2>2. Has(stk, c.func, Frame.fn)
    BY <1>5, <1>7 DEF Placed
  <2>3. Has(stk', c.func, Frame.fn)
    BY <2>2, <1>5, <1>12, HasOne
  <2> QED BY <2>1, <2>3, <1>9 DEF Placed
<1>15. RegsOK(stk', c1, Frame)
  BY <1>5, <1>6, <1>9, <1>12, SlotsKept DEF RegsOK
<1>16. Room(stk') = Room(stk)
  BY <1>12 DEF SameSlots, Room
<1>17. OpOK(stk', c1, Frame)
  BY <1>5, <1>6, <1>10, <1>12, <1>15, <1>16 DEF OpOK
<1>18. HandsBack(stk', kind, c1)
  BY <1>9, <1>10, <1>11, <1>12, <1>13, <1>14, <1>17 DEF HandsBack, FrameOK, c
<1> QED BY <1>1, <1>4, <1>18, CallerGoesOn

(* What a metamethod leaves where it ran becomes a register of its frame.  *)
MetaMoved(m, g, at, v) ==
  /\ StackOK(g) /\ g.last = m.last /\ g.cis = m.cis /\ g.top = Last(m.cis).top /\ Agree(m, g, at)
  /\ InPlace(g, at, <<v>>)
  /\ \A b, ws : IsSeq(ws) /\ InPlace(m, b, ws) /\ (b + Len(ws) <= at \/ at + 1 <= b) => InPlace(g, b, ws)
(* A helper that ran a metamethod moves its result, and nothing else.      *)
LEMMA MetaMoves ==
  ASSUME NEW m, StackOK(m), NEW v, m.top - 1 \in Nat, Has(m, m.top - 1, v),
         NEW at \in Nat, at + 1 <= m.last + Extra, Last(m.cis).top \in Nat
  PROVE  MetaMoved(m, Claimed(Copy(m, m.top - 1, 1, at)), at, v)
<1> DEFINE p == m.top - 1
           s == <<v>>
           h == Put(m, at, s)
           t == Last(m.cis).top
<1>1. IsSeq(s) /\ Len(s) = 1
  BY Singles
<1>2. Copy(m, p, 1, at) = h
  <2>1. InPlace(m, p, s)
    <3> HIDE DEF p
    <3> QED BY HasOne DEF p
  <2> HIDE DEF p, s
  <2>2. Read(m, p, Len(s)) = s
    BY <2>1, <1>1, ReadInPlace
  <2> QED BY <2>2, <1>1 DEF Copy
<1> HIDE DEF s, p
<1>3. /\ StackOK(h) /\ h.last = m.last /\ h.cis = m.cis /\ Agree(m, h, at) /\ InPlace(h, at, s)
  BY <1>1, PutDoes
<1>4. \A b, ws : IsSeq(ws) /\ InPlace(m, b, ws) /\ (b + Len(ws) <= at \/ at + 1 <= b) => InPlace(h, b, ws)
  BY <1>1, PutElsewhere
<1> HIDE DEF h
<1>5. Claimed(h) = Topped(h, t)
  BY <1>3 DEF Claimed
<1> HIDE DEF t
<1>6. t \in Nat
  BY DEF t
<1> DEFINE g == Topped(h, t)
<1>7. SameSlots(h, g) /\ g.top = t /\ g.cis = m.cis
  BY <1>3, <1>6, ToppedDoes
<1> HIDE DEF g
<1>8. StackOK(g) /\ g.last = m.last
  BY <1>3, <1>7 DEF SameSlots
<1>9. Agree(m, g, at)
  <2>1. Agree(h, g, at)
    BY <1>3, <1>7, SlotsKept
  <2> QED BY <2>1, <1>3, AgreeSteps
<1>10. \A b, ws : InPlace(h, b, ws) => InPlace(g, b, ws)
  BY <1>3, <1>7, SlotsKept
<1>11. MetaMoved(m, g, at, v)
  BY <1>3, <1>4, <1>7, <1>8, <1>9, <1>10 DEF MetaMoved, s, t
<1> QED BY <1>2, <1>5, <1>11 DEF g, p

(* The frame that asked for the metamethod goes on.                        *)
LEMMA MetaReturnsKeeps ==
  ASSUME LoopInv, DataInv, StackHolds, MetaReturns
  PROVE  DataInv'
<1> DEFINE kind == "meta"
           c == Last(stk.cis)
           x == Last(nat)
           pre == Frame.want.pre
           post == Frame.want.post
           at == Base(stk) + x.a
           b == c.func + 1
<1>1. /\ Waiting(kind) /\ Resumes /\ stk' = Claimed(Copy(stk, stk.top - 1, 1, at))
      /\ kind \in Helper
  BY DEF MetaReturns, ToBody, Resumes, Helper
<1> HIDE DEF kind
<1>2. PICK link : Helping(kind, link)
  BY <1>1, HelperBack
<1>3. /\ StackOK(stk) /\ FrameOK(stk, c, Frame) /\ DealOK(stk, x, Len(lua), c, Frame)
      /\ MidOK(stk, x, c, Frame, rax) /\ x.kind = "meta" /\ ~Frame.ret /\ Frame.ready
      /\ c.top <= Room(stk)
  BY <1>2 DEF Helping, kind
<1>4. /\ IsSeq(pre) /\ IsSeq(post) /\ x.a = Len(pre) /\ Frame.open = -1 /\ Fits(Frame)
  BY <1>3 DEF DealOK, MidOK
<1>5. Shape(c, Frame)
  BY <1>3 DEF FrameOK
<1>6. /\ c.func \in Nat /\ c.top \in Nat /\ b \in Nat /\ IsSeq(Frame.regs) /\ Len(Frame.regs) \in Nat
      /\ Low(c, Frame) \in Nat /\ Low(c, Frame) <= c.func /\ Frame.fn \in DOMAIN FnInfo
  BY <1>5, ShapeFacts
<1>7. IsLua(Frame.fn)
  BY <1>3, <1>6, FnFacts DEF DealOK
<1>8. PICK v : Frame.regs = pre \o <<v>> \o post /\ stk.top - 1 \in Nat /\ Has(stk, stk.top - 1, v)
  BY <1>3 DEF MidOK
<1>9. InPlace(stk, b, pre) /\ InPlace(stk, b + Len(pre) + 1, post) /\ stk.top - 1 >= End(c, Frame)
  BY <1>3 DEF MidOK
<1> DEFINE s == <<v>>
<1>10. IsSeq(s) /\ Len(s) = 1
  BY Singles
<1>11. Frame.regs = pre \o s \o post
  BY <1>8
<1> HIDE DEF s
<1>12. /\ IsSeq(pre \o s) /\ Len(pre \o s) = Len(pre) + 1
       /\ Len(pre) \in Nat /\ Len(post) \in Nat /\ Len(Frame.regs) = Len(pre) + 1 + Len(post)
  <2> HIDE DEF pre, post
  <2>1. IsSeq(pre \o s) /\ Len(pre \o s) = Len(pre) + 1
    BY <1>4, <1>10, Joined, ZenonT(60)
  <2> DEFINE q == pre \o s
  <2>2. IsSeq(q) /\ Len(q) = Len(pre) + 1
    BY <2>1
  <2> HIDE DEF q
  <2>3. Len(q \o post) = Len(q) + Len(post)
    BY <2>2, <1>4, Joined
  <2> QED BY <2>1, <2>2, <2>3, <1>4, <1>11, SeqFacts DEF q
<1>13. at = b + Len(pre) /\ at \in Nat
  BY <1>4, <1>6, <1>12 DEF Base
<1> HIDE DEF at, b, c, x, pre, post
<1>14. at + 1 <= stk.last + Extra
  <2> DEFINE t == stk.top - 1
             k == stk.last + Extra
             p == Len(pre)
             q == Len(post)
  <2>1. t >= b + (p + 1 + q) /\ t \in Nat /\ t < k /\ p \in Nat /\ q \in Nat /\ b \in Nat
        /\ at = b + p
    <3>1. t >= End(c, Frame) /\ t \in Nat /\ t < k
      BY <1>8, <1>9 DEF Has
    <3>2. End(c, Frame) = b + Len(Frame.regs)
      BY DEF End, b
    <3>3. Len(Frame.regs) = p + 1 + q
      BY <1>12
    <3> QED BY <3>1, <3>2, <3>3, <1>6, <1>12, <1>13
  <2>2. k \in Nat
    BY <1>3, ExtraNat DEF StackOK
  <2> HIDE DEF t, k, p, q
  <2>3. at + 1 <= k
    BY <2>1, <2>2
  <2> QED BY <2>3 DEF k
<1>15. MetaMoved(stk, stk', at, v)
  BY <1>1, <1>3, <1>6, <1>8, <1>13, <1>14, MetaMoves DEF c
<1>16. /\ StackOK(stk') /\ stk'.last = stk.last /\ stk'.cis = stk.cis /\ stk'.top = c.top
       /\ Agree(stk, stk', at) /\ InPlace(stk', at, s)
       /\ \A d, ws : IsSeq(ws) /\ InPlace(stk, d, ws) /\ (d + Len(ws) <= at \/ at + 1 <= d) => InPlace(stk', d, ws)
  BY <1>15 DEF MetaMoved, c, s
<1>17. InPlace(stk', b, pre) /\ InPlace(stk', b + Len(pre) + 1, post)
  <2> DEFINE p == Len(pre)
  <2>1. b + p <= at /\ at + 1 <= b + p + 1
    <3> HIDE DEF p
    <3>1. at = b + p /\ p \in Nat /\ b \in Nat
      BY <1>6, <1>12, <1>13 DEF p
    <3> QED BY <3>1
  <2> QED BY <2>1, <1>4, <1>9, <1>16
<1>18. InPlace(stk', b, pre \o s)
  BY <1>4, <1>10, <1>13, <1>16, <1>17, InPlaceJoined
<1>19. RegsOK(stk', c, Frame)
  <2> DEFINE q == pre \o s
  <2>1. IsSeq(q) /\ Len(q) = Len(pre) + 1 /\ InPlace(stk', b, q) /\ Frame.regs = q \o post
    BY <1>11, <1>12, <1>18
  <2> HIDE DEF q
  <2>2. b + Len(q) = b + Len(pre) + 1
    BY <2>1, <1>6, <1>12
  <2>3. InPlace(stk', b, q \o post)
    BY <2>1, <2>2, <1>4, <1>16, <1>17, InPlaceJoined
  <2> QED BY <2>1, <2>3 DEF RegsOK, b
<1>20. FrameOK(stk', c, Frame) /\ Agree(stk, stk', Low(c, Frame))
  <2>1. at \in Int /\ c.func < at /\ Low(c, Frame) \in Int /\ Low(c, Frame) <= at
    <3> DEFINE p == Len(pre)
               f == c.func
    <3>1. at = f + 1 + p /\ p \in Nat /\ f \in Nat
      BY <1>6, <1>12, <1>13 DEF b
    <3> HIDE DEF p, f
    <3>2. f < at /\ at \in Int /\ \A l \in Int : l <= f => l <= at
      BY <3>1
    <3> QED BY <3>2, <1>6 DEF f
  <2>2. FrameOK(stk', c, Frame)
    BY <2>1, <1>3, <1>16, FrameStays
  <2>3. Agree(stk, stk', Low(c, Frame))
    BY <2>1, <1>3, <1>16, AgreeBelow
  <2> QED BY <2>2, <2>3
<1>21. RunOK(stk', c, Frame)
  <2>1. Room(stk') = Room(stk)
    BY <1>16 DEF Room
  <2> QED BY <2>1, <1>3, <1>4, <1>7, <1>16, <1>19 DEF RunOK
<1>22. HandsBack(stk', kind, c)
  BY <1>16, <1>20, <1>21 DEF HandsBack, c, kind
<1> QED BY <1>1, <1>2, <1>22, CallerGoesOn

(* A CallInfo that only differs in its mark, on the same slots.            *)
Remarked(c, c1) ==
  /\ DOMAIN c1 = DOMAIN c /\ c1.func = c.func /\ c1.top = c.top /\ c1.n = c.n /\ c1.nextra = c.nextra
(* The mark is no part of what a frame holds.                              *)
LEMMA RemarkedFrame ==
  ASSUME NEW m, StackOK(m), NEW g, SameSlots(m, g), NEW c, NEW f, FrameOK(m, c, f), NEW c1, Remarked(c, c1)
  PROVE  /\ FrameOK(g, c1, f) /\ Low(c1, f) = Low(c, f) /\ c1.n = c.n
         /\ Agree(m, g, Low(c, f)) /\ Room(g) = Room(m)
<1>1. Shape(c, f) /\ Placed(m, c, f)
  BY DEF FrameOK
<1>2. Low(c1, f) = Low(c, f)
  BY DEF Low, Remarked
<1>3. Shape(c1, f)
  BY <1>1, <1>2 DEF Shape, Remarked, InfoOK
<1>4. (~f.ret => Has(m, c.func, f.fn)) /\ (Spread(f) => InPlace(m, c.func - c.nextra, f.extra))
  BY <1>1 DEF Placed
<1>5. ~f.ret => Has(g, c.func, f.fn)
  BY <1>4, HasOne
<1>6. Spread(f) => InPlace(g, c.func - c.nextra, f.extra)
  BY <1>4, SlotsKept
<1>7. Placed(g, c1, f)
  BY <1>5, <1>6 DEF Placed, Remarked
<1>8. Agree(m, g, Low(c, f))
  BY SlotsKept
<1>9. Room(g) = Room(m)
  BY DEF SameSlots, Room
<1> QED BY <1>2, <1>3, <1>7, <1>8, <1>9 DEF FrameOK, Remarked

(* The drive loop, as the function it has driven comes back.               *)
Driving(link) ==
  /\ HoldsOK(stk, lua, nat, link) /\ Len(link) = Len(lua) - 1 /\ Serving(nat, link)
  /\ StackOK(stk) /\ IsSeq(lua) /\ Len(lua) \in Nat \ {0} /\ IsSeq(stk.cis) /\ Len(stk.cis) = Len(lua)
  /\ IsSeq(nat) /\ Len(nat) \in Nat /\ Len(nat) > 1 /\ nat[Len(nat)].kind = "drive" /\ Ordered(nat)
  /\ Frame = lua[Len(lua)] /\ Last(stk.cis) = stk.cis[Len(lua)]
  /\ FrameOK(stk, Last(stk.cis), Frame) /\ prog \in Programs /\ fuel \in Nat /\ rep \in BOOLEAN
  /\ rax \in Int /\ rax # -1
  /\ rep => RunOK(stk, Last(stk.cis), Frame)
  /\ ~rep => LeftOK(stk, Last(stk.cis), Frame, rax) /\ Frame.ret

(* What is known where it is.                                              *)
LEMMA DriveFacts ==
  ASSUME LoopInv, DataInv, StackHolds, Waiting("drive")
  PROVE  \E link : Driving(link)
<1>1. rax >= 0 /\ Last(nat).kind = "drive"
  BY DEF Waiting
<1>2. /\ StackOK(stk) /\ IsSeq(lua) /\ Len(lua) \in Nat \ {0} /\ IsSeq(stk.cis) /\ Len(stk.cis) = Len(lua)
      /\ IsSeq(nat) /\ Len(nat) \in Nat \ {0} /\ Last(nat) = nat[Len(nat)]
      /\ Frame = lua[Len(lua)] /\ Last(stk.cis) = stk.cis[Len(lua)]
      /\ FrameOK(stk, Last(stk.cis), Frame) /\ Last(stk.cis).top <= Room(stk)
      /\ prog \in Programs /\ fuel \in Nat /\ Ordered(nat)
      /\ TopOK(stk, Last(nat), Len(lua), Last(stk.cis), Frame, rax, rep)
  BY Anywhere
<1>3. PICK link : HoldsOK(stk, lua, nat, link)
  BY DEF DataInv
<1>4. Len(link) = Len(lua) - 1 /\ Serving(nat, link)
  BY <1>1, <1>2, <1>3 DEF HoldsOK, Helper
<1>5. Len(nat) > 1
  <2>1. nat[1].kind = "cfn" /\ nat[Len(nat)].kind # "cfn"
    BY <1>1, <1>2 DEF Ordered
  <2> DEFINE k == Len(nat)
  <2>2. k # 1 /\ k \in Nat \ {0}
    BY <2>1, <1>2
  <2> HIDE DEF k
  <2>3. k > 1
    BY <2>2
  <2> QED BY <2>3 DEF k
<1>6. rep \in BOOLEAN
  BY DEF LoopInv
<1>7. rax \in Int /\ rax # -1
  BY <1>1, <1>2 DEF TopOK
<1>8. rep => RunOK(stk, Last(stk.cis), Frame)
  BY <1>2 DEF TopOK
<1>9. ~rep => LeftOK(stk, Last(stk.cis), Frame, rax) /\ Frame.ret
  BY <1>1, <1>2 DEF TopOK, Entry
<1>10. Driving(link)
  BY <1>1, <1>2, <1>3, <1>4, <1>5, <1>6, <1>7, <1>8, <1>9 DEF Driving
<1> QED BY <1>10

(* The loop marks the frame as its own while it goes on, and leaves it      *)
(* unmarked when it ends.                                                  *)
LEMMA Redriven ==
  ASSUME NEW link, Driving(link), NEW mark, stk' = SetCI(stk, [Last(stk.cis) EXCEPT !.drive = mark]),
         lua' = lua, NEW to, Serving(nat', to), Len(to) = Len(lua) - 1,
         nat'[Len(nat')].kind \notin Helper \cup {"ctail"},
         \A j \in 1..(Len(lua) - 1) : nat'[to[j]] = nat[link[j]]
  PROVE  \E c1 : /\ Remarked(Last(stk.cis), c1) /\ SameSlots(stk, stk') /\ stk'.top = stk.top
                 /\ stk'.cis[Len(lua)] = c1 /\ HoldsOK(stk', lua', nat', to) /\ Room(stk') = Room(stk)
                 /\ FrameOK(stk', c1, Frame)
<1> DEFINE K == Len(lua)
           c == Last(stk.cis)
           c1 == [c EXCEPT !.drive = mark]
<1>1. /\ HoldsOK(stk, lua, nat, link) /\ StackOK(stk) /\ IsSeq(lua) /\ K \in Nat \ {0} /\ IsSeq(stk.cis)
      /\ Len(stk.cis) = K /\ Frame = lua[K] /\ c = stk.cis[K] /\ FrameOK(stk, c, Frame)
  BY DEF Driving
<1>2. Remarked(c, c1)
  <2>1. DOMAIN c = {"func", "top", "n", "drive", "nextra"}
    BY <1>1 DEF FrameOK, Shape, InfoOK
  <2> HIDE DEF c
  <2> QED BY <2>1 DEF Remarked
<1>3. SameSlots(stk, stk') /\ stk'.top = stk.top /\ stk'.cis = Append(Front(stk.cis), c1)
  BY <1>1, SetCIDoes
<1> HIDE DEF c1, K
<1>4. SameBelow(stk.cis, stk'.cis) /\ stk'.cis[K] = c1
  <2> DEFINE s == stk.cis
             t == stk'.cis
  <2>1. IsSeq(s) /\ Len(s) >= 1 /\ Len(s) = K
    BY <1>1
  <2>2. t = Append(Front(s), c1)
    BY <1>3
  <2> HIDE DEF s, t
  <2>3. SameBelow(s, Append(Front(s), c1)) /\ Append(Front(s), c1)[Len(s)] = c1
    BY <2>1, SameBelowNow
  <2>4. SameBelow(s, t) /\ t[K] = c1
    BY <2>1, <2>2, <2>3
  <2> QED BY <2>4 DEF s, t
<1>5. SameBelow(lua, lua') /\ lua'[K] = Frame
  <2>1. Len(lua) >= 1
    BY <1>1 DEF K
  <2>2. SameBelow(lua, lua)
    BY <2>1, <1>1, SameBelowNow
  <2> QED BY <2>2, <1>1
<1>6. FrameOK(stk', c1, Frame) /\ Low(c1, Frame) = Low(c, Frame) /\ c1.n = c.n
      /\ Agree(stk, stk', Low(c, Frame)) /\ Room(stk') = Room(stk)
  BY <1>1, <1>2, <1>3, RemarkedFrame
<1>7. TopStep(stk, lua, nat, link, stk', lua', nat', to)
  <2>1. Len(to) = IF nat'[Len(nat')].kind \in Helper \cup {"ctail"} THEN K ELSE K - 1
    BY DEF K
  <2>2. \A j \in 1..(K - 1) : nat'[to[j]] = nat[link[j]]
    BY DEF K
  <2> QED BY <1>1, <1>4, <1>5, <1>6, <2>1, <2>2 DEF TopStep, K
<1>8. HoldsOK(stk', lua', nat', to)
  BY <1>7, HoldsTop
<1>9. stk'.cis[Len(lua)] = c1
  BY <1>4 DEF K
<1> QED BY <1>2, <1>3, <1>6, <1>8, <1>9

(* It goes on with the next function of the chain.                         *)
LEMMA NextDriven ==
  ASSUME LoopInv, DataInv, StackHolds, DriveReturns, rep
  PROVE  DataInv'
<1> DEFINE c == Last(stk.cis)
           K == Len(lua)
<1>1. /\ Waiting("drive") /\ rep' = FALSE /\ stk' = SetCI(stk, [c EXCEPT !.drive = rep])
      /\ nat' = Append(nat, Body) /\ rax' = -1 /\ lua' = lua /\ fuel' = fuel /\ prog' = prog
  BY DEF DriveReturns
<1>2. PICK link : Driving(link)
  BY <1>1, DriveFacts
<1>3. /\ IsSeq(nat) /\ Len(nat) \in Nat /\ Serving(nat, link) /\ Len(link) = K - 1
      /\ RunOK(stk, c, Frame) /\ prog \in Programs /\ fuel \in Nat /\ Frame = lua[K] /\ StackOK(stk)
  BY <1>2 DEF Driving
<1>4. Body.kind = "body" /\ Body.kind \notin Server /\ Body.kind \notin Helper \cup {"ctail"}
  BY DEF Body, Act, Server, Helper
<1>5. Longer(nat, nat', Body)
  BY <1>1, <1>3, AppendLonger
<1>6. Serving(nat', link) /\ \A j \in 1..Len(link) : nat'[link[j]] = nat[link[j]]
  <2> DEFINE b == Body
             m == nat'
  <2>1. Longer(nat, m, b) /\ b.kind \notin Server
    BY <1>4, <1>5
  <2> HIDE DEF b, m
  <2>2. Serving(m, link) /\ \A j \in 1..Len(link) : m[link[j]] = nat[link[j]]
    BY <2>1, <1>3, ServingPush
  <2> QED BY <2>2 DEF m
<1>7. nat'[Len(nat')] = Body
  BY <1>5 DEF Longer
<1>8. PICK c1 : /\ Remarked(c, c1) /\ SameSlots(stk, stk') /\ stk'.top = stk.top
                /\ stk'.cis[K] = c1 /\ HoldsOK(stk', lua', nat', link) /\ Room(stk') = Room(stk)
                /\ FrameOK(stk', c1, Frame)
  <2>1. nat'[Len(nat')].kind \notin Helper \cup {"ctail"}
    BY <1>4, <1>7
  <2>2. \A j \in 1..(Len(lua) - 1) : nat'[link[j]] = nat[link[j]]
    BY <1>3, <1>6
  <2> QED BY <2>1, <2>2, <1>1, <1>2, <1>3, <1>6, Redriven
<1> HIDE DEF c
<1>9. RunOK(stk', c1, Frame)
  <2>1. RegsOK(stk', c1, Frame)
    BY <1>3, <1>8, SlotsKept DEF RunOK, RegsOK, Remarked
  <2>2. End(c1, Frame) = End(c, Frame)
    BY <1>8 DEF End, Remarked
  <2> QED BY <2>1, <2>2, <1>3, <1>8 DEF RunOK
<1>10. TopOK(stk', nat'[Len(nat')], K, c1, Frame, -1, FALSE)
  <2>1. ~Frame.ret
    BY <1>9 DEF RunOK
  <2> QED BY <2>1, <1>4, <1>7, <1>9 DEF TopOK, Entry, Helper
<1>11. TopOK(stk', nat'[Len(nat')], Len(lua'), stk'.cis[Len(lua')], lua'[Len(lua')], rax', rep')
  BY <1>1, <1>3, <1>8, <1>10
<1>12. prog' \in Programs /\ fuel' \in Nat
  BY <1>1, <1>3
<1> QED BY <1>8, <1>11, <1>12 DEF DataInv

(* Or the chain has come to its end.                                       *)
LEMMA ChainDriven ==
  ASSUME LoopInv, DataInv, StackHolds, DriveReturns, ~rep
  PROVE  DataInv' /\ nat'[Len(nat')].kind \in {"rtcall", "ccall"}
<1> DEFINE c == Last(stk.cis)
           K == Len(lua)
           u == Front(nat)
<1>1. /\ Waiting("drive") /\ rep' = FALSE /\ stk' = SetCI(stk, [c EXCEPT !.drive = rep])
      /\ nat' = u /\ rax' = rax /\ lua' = lua /\ fuel' = fuel /\ prog' = prog
  BY DEF DriveReturns
<1>2. PICK link : Driving(link)
  BY <1>1, DriveFacts
<1>3. /\ IsSeq(nat) /\ Len(nat) \in Nat /\ Len(nat) > 1 /\ Serving(nat, link) /\ Len(link) = K - 1
      /\ LeftOK(stk, c, Frame, rax) /\ prog \in Programs /\ fuel \in Nat /\ Frame = lua[K] /\ StackOK(stk)
      /\ Frame.ret /\ rax \in Int /\ rax # -1 /\ nat[Len(nat)].kind = "drive" /\ Ordered(nat)
      /\ IsSeq(Frame.regs) /\ FrameOK(stk, c, Frame)
  <2>1. FrameOK(stk, c, Frame)
    BY <1>2 DEF Driving
  <2>2. IsSeq(Frame.regs)
    BY <2>1 DEF FrameOK, Shape
  <2> QED BY <2>1, <2>2, <1>2 DEF Driving
<1>4. u[Len(u)].kind \in {"rtcall", "ccall"}
  <2>1. Len(nat) \in 2..Len(nat)
    BY <1>3
  <2>2. nat[Len(nat) - 1].kind \in Under(nat[Len(nat)].kind)
    BY <2>1, <1>3 DEF Ordered
  <2>3. nat[Len(nat) - 1].kind \in {"rtcall", "ccall"}
    BY <2>2, <1>3 DEF Under
  <2>4. Shorter(nat, u)
    <3>1. Len(nat) >= 1
      BY <1>3
    <3> QED BY <3>1, <1>3, FrontShorter
  <2>5. Len(u) = Len(nat) - 1 /\ Len(u) \in 1..Len(u)
    BY <2>4, <1>3 DEF Shorter
  <2>6. u[Len(u)] = nat[Len(u)]
    BY <2>4, <2>5 DEF Shorter
  <2> QED BY <2>3, <2>5, <2>6
<1>5. Serving(u, link) /\ \A j \in 1..Len(link) : u[link[j]] = nat[link[j]]
  <2>1. nat[Len(nat)].kind \notin Server /\ Len(nat) >= 1
    BY <1>3 DEF Server, Helper
  <2>2. Serving(Front(nat), link)
    BY <2>1, <1>3, ServingPop
  <2>3. \A j \in 1..Len(link) : Front(nat)[link[j]] = nat[link[j]]
    <3>1. Shorter(nat, Front(nat))
      BY <2>1, <1>3, FrontShorter
    <3> SUFFICES ASSUME NEW j \in 1..Len(link) PROVE Front(nat)[link[j]] = nat[link[j]]
      OBVIOUS
    <3>2. link[j] \in 1..Len(nat) /\ nat[link[j]].kind \in Server
      BY <1>3 DEF Serving
    <3>3. link[j] # Len(nat)
      BY <2>1, <3>2
    <3>4. link[j] \in 1..Len(Front(nat))
      BY <1>3, <3>1, <3>2, <3>3 DEF Shorter
    <3> QED BY <3>1, <3>4 DEF Shorter
  <2> QED BY <2>2, <2>3
<1> HIDE DEF u
<1>6. PICK c1 : /\ Remarked(c, c1) /\ SameSlots(stk, stk') /\ stk'.top = stk.top
                /\ stk'.cis[K] = c1 /\ HoldsOK(stk', lua', nat', link) /\ Room(stk') = Room(stk)
                /\ FrameOK(stk', c1, Frame)
  <2>1. nat'[Len(nat')].kind \notin Helper \cup {"ctail"}
    BY <1>1, <1>4 DEF Helper
  <2>2. \A j \in 1..(Len(lua) - 1) : nat'[link[j]] = nat[link[j]]
    BY <1>1, <1>3, <1>5
  <2>3. Serving(nat', link)
    BY <1>1, <1>5
  <2> QED BY <2>1, <2>2, <2>3, <1>1, <1>2, <1>3, Redriven
<1> HIDE DEF c
<1>7. LeftOK(stk', c1, Frame, rax)
  <2>1. InPlace(stk', c.func, Frame.regs)
    BY <1>3, <1>6, SlotsKept DEF LeftOK
  <2> QED BY <2>1, <1>3, <1>6 DEF LeftOK, Remarked
<1>8. TopOK(stk', u[Len(u)], K, c1, Frame, rax, FALSE)
  BY <1>3, <1>4, <1>7 DEF TopOK, Entry, Helper
<1>9. TopOK(stk', nat'[Len(nat')], Len(lua'), stk'.cis[Len(lua')], lua'[Len(lua')], rax', rep')
  BY <1>1, <1>3, <1>6, <1>8
<1>10. prog' \in Programs /\ fuel' \in Nat
  BY <1>1, <1>3
<1>11. DataInv'
  BY <1>6, <1>9, <1>10 DEF DataInv
<1> QED BY <1>1, <1>4, <1>11

(* The drive loop.                                                         *)
LEMMA DriveReturnsKeeps ==
  ASSUME LoopInv, DataInv, StackHolds, DriveReturns
  PROVE  DataInv' /\ (~rep => nat'[Len(nat')].kind \in {"rtcall", "ccall"})
BY NextDriven, ChainDriven

-----------------------------------------------------------------------------
(* An error.                                                               *)

(* The values pcall returns after one.                                     *)
LEMMA Caught ==
  /\ IsSeq(<<oops, no, oops>>) /\ Len(<<oops, no, oops>>) = 3
  /\ IsSeq(<<yes, oops, no, oops>>) /\ Len(<<yes, oops, no, oops>>) = 4
  /\ <<yes>> \o <<oops, no, oops>> = <<yes, oops, no, oops>>
<1>1. IsSeq(<<oops, no, oops>>) /\ Len(<<oops, no, oops>>) = 3
  <2>1. <<oops, no, oops>> \in Seq({oops, no})
    OBVIOUS
  <2> QED BY <2>1 DEF IsSeq
<1>2. IsSeq(<<yes, oops, no, oops>>) /\ Len(<<yes, oops, no, oops>>) = 4
  <2>1. <<yes, oops, no, oops>> \in Seq({yes, oops, no})
    OBVIOUS
  <2> QED BY <2>1 DEF IsSeq
<1>3. <<yes>> \o <<oops, no, oops>> = <<yes, oops, no, oops>>
  <2> DEFINE e == <<yes>>
             s == <<oops, no, oops>>
             r == <<yes, oops, no, oops>>
  <2>1. IsSeq(e) /\ Len(e) = 1 /\ e[1] = yes
    BY Singles
  <2>2. s[1] = oops /\ s[2] = no /\ s[3] = oops /\ r[1] = yes /\ r[2] = oops /\ r[3] = no /\ r[4] = oops
    OBVIOUS
  <2>3. IsSeq(s) /\ Len(s) = 3 /\ IsSeq(r) /\ Len(r) = 4
    BY <1>1, <1>2
  <2> HIDE DEF e, s, r
  <2>a. IsSeq(e) /\ IsSeq(s)
    BY <2>1, <2>3
  <2>b. IsSeq(e \o s) /\ Len(e \o s) = Len(e) + Len(s)
    BY <2>a, Joined
  <2>c. \A i \in 1..Len(e) : (e \o s)[i] = e[i]
    BY <2>a, Joined
  <2>d. \A i \in 1..Len(s) : (e \o s)[Len(e) + i] = s[i]
    BY <2>a, Joined
  <2>4. /\ IsSeq(e \o s) /\ Len(e \o s) = Len(e) + Len(s)
        /\ \A i \in 1..Len(e) : (e \o s)[i] = e[i]
        /\ \A i \in 1..Len(s) : (e \o s)[Len(e) + i] = s[i]
    BY <2>b, <2>c, <2>d
  <2>5. Len(e \o s) = 4 /\ (e \o s)[1] = yes
    BY <2>1, <2>3, <2>4
  <2>6. \A i \in 1..3 : (e \o s)[1 + i] = s[i]
    BY <2>1, <2>3, <2>4
  <2>7. (e \o s)[2] = oops /\ (e \o s)[3] = no /\ (e \o s)[4] = oops
    <3>1. 1 \in 1..3 /\ 2 \in 1..3 /\ 3 \in 1..3 /\ 1 + 1 = 2 /\ 1 + 2 = 3 /\ 1 + 3 = 4
      OBVIOUS
    <3> QED BY <3>1, <2>2, <2>6
  <2>8. \A i \in 1..Len(r) : (e \o s)[i] = r[i]
    <3>1. \A i \in 1..4 : i = 1 \/ i = 2 \/ i = 3 \/ i = 4
      OBVIOUS
    <3> QED BY <3>1, <2>2, <2>3, <2>5, <2>7
  <2>9. e \o s = r
    BY <2>3, <2>4, <2>5, <2>8, SameElements
  <2> QED BY <2>9 DEF e, s, r
<1> QED BY <1>1, <1>2, <1>3

(* Frame l called the innermost pcall, and is left alone with its error.   *)
Unwinds(link, l, x, c, f) ==
  /\ Running(link) /\ l \in 1..(Len(lua) - 1) /\ l \in 1..Len(link) /\ l \in Nat
  /\ x = nat[link[l]] /\ c = stk.cis[l] /\ f = lua[l] /\ x.kind = "pcall" /\ x.a = l
  /\ FrameOK(stk, c, f) /\ RegsOK(stk, c, f) /\ DealOK(stk, x, l, c, f) /\ f.regs = <<yes>>
  /\ c.top <= Room(stk) /\ link[l] \in 2..Len(nat) /\ nat[link[l] - 1].kind = "cfn"

(* There is such a frame.                                                  *)
LEMMA GuardFound ==
  ASSUME LoopInv, DataInv, StackHolds, NEW link, Running(link), NEW g \in DOMAIN nat, nat[g].kind = "pcall"
  PROVE  \E l, c, f : Unwinds(link, l, nat[g], c, f) /\ link[l] = g
<1> DEFINE K == Len(lua)
           x == nat[g]
<1>1. /\ HoldsOK(stk, lua, nat, link) /\ Len(link) = K - 1 /\ K \in Nat \ {0} /\ IsSeq(nat)
      /\ StackOK(stk) /\ Len(stk.cis) = K
  BY DEF Running
<1>2. Serving(nat, link) /\ LowerOK(stk, stk.cis, lua, nat, link, K, stk.cis[K].n, Low(stk.cis[K], lua[K]))
  BY <1>1 DEF HoldsOK
<1>3. g \in 1..Len(nat) /\ x.kind \in Server
  BY <1>1, SeqFacts DEF Server, Helper
<1>4. PICK l \in 1..Len(link) : link[l] = g
  BY <1>2, <1>3 DEF Serving
<1>5. l \in 1..(K - 1) /\ l \in Nat
  BY <1>1, <1>4
<1> DEFINE c == stk.cis[l]
           f == lua[l]
<1>6. /\ FrameOK(stk, c, f) /\ RegsOK(stk, c, f) /\ DealOK(stk, x, l, c, f)
      /\ \E n, low : WaitOK(stk, x, c, f, n, low)
  BY <1>2, <1>4, <1>5 DEF LowerOK, OneOK
<1>7. f.regs = f.want.pre
  BY <1>6 DEF WaitOK
<1>8. x.a = l /\ f.want.pre = <<yes>>
  BY <1>6 DEF DealOK
<1>9. c.top <= Room(stk)
  <2>1. l \in 1..Len(stk.cis)
    BY <1>1, <1>5
  <2> QED BY <2>1 DEF StackHolds, Ceilings, Room
<1>10. g \in 2..Len(nat) /\ nat[g - 1].kind = "cfn"
  <2>1. Ordered(nat)
    BY Anywhere
  <2>2. nat[1].kind = "cfn"
    BY <2>1 DEF Ordered
  <2>3. g # 1
    BY <2>2
  <2>4. g \in 2..Len(nat)
    BY <1>3, <2>3
  <2>5. nat[g - 1].kind \in Under(nat[g].kind)
    BY <2>1, <2>4 DEF Ordered
  <2> QED BY <2>4, <2>5 DEF Under
<1>11. Unwinds(link, l, x, c, f)
  BY <1>4, <1>5, <1>6, <1>7, <1>8, <1>9, <1>10 DEF Unwinds
<1> QED BY <1>4, <1>11

(* It has its error in its registers.                                      *)
Catches(g, l, x, c, f, f1) ==
  /\ IsSeq(g.cis) /\ Len(g.cis) = l /\ \A j \in 1..l : g.cis[j] = stk.cis[j]
  /\ Agree(stk, g, Low(c, f)) /\ FrameOK(g, c, f1) /\ Low(c, f1) = Low(c, f) /\ OpOK(g, c, f1)
(* The frame of the innermost pcall goes on with its error.                *)
LEMMA ErrorCaught ==
  ASSUME NEW link, NEW l, NEW x, NEW c, NEW f, Unwinds(link, l, x, c, f),
         NEW g, g = Topped(Put([stk EXCEPT !.cis = SubSeq(@, 1, l)], x.n, <<oops, no, oops>>), x.n + 3),
         NEW f1, f1 = [f EXCEPT !.regs = <<yes, oops, no, oops>>, !.open = 2]
  PROVE  Catches(g, l, x, c, f, f1)
<1> DEFINE s == <<oops, no, oops>>
           r == <<yes, oops, no, oops>>
           y == <<yes>>
           cs == SubSeq(stk.cis, 1, l)
           cut == [stk EXCEPT !.cis = cs]
           at == x.n
           p == Put(cut, at, s)
           t == at + 3
<1>1. /\ StackOK(stk) /\ IsSeq(stk.cis) /\ Len(stk.cis) = Len(lua) /\ l \in 1..(Len(lua) - 1) /\ Len(lua) \in Nat
      /\ l \in Nat /\ FrameOK(stk, c, f) /\ RegsOK(stk, c, f) /\ DealOK(stk, x, l, c, f) /\ f.regs = y
      /\ c.top <= Room(stk) /\ x.kind = "pcall"
  BY DEF Unwinds, Running
<1>2. /\ IsSeq(s) /\ Len(s) = 3 /\ IsSeq(r) /\ Len(r) = 4 /\ y \o s = r /\ IsSeq(y) /\ Len(y) = 1
  BY Caught, Singles
<1>3. g = Topped(p, t)
  OBVIOUS
<1>4. f1 = [f EXCEPT !.regs = r, !.open = 2]
  OBVIOUS
<1>5. IsSeq(cs) /\ Len(cs) = l /\ \A j \in 1..l : cs[j] = stk.cis[j]
  <2>1. 1 \in 1..(Len(stk.cis) + 1) /\ l \in (1 - 1)..Len(stk.cis)
    BY <1>1
  <2> DEFINE one == 1
             d == stk.cis
  <2>2. IsSeq(d) /\ one \in 1..(Len(d) + 1) /\ l \in (one - 1)..Len(d) /\ one = 1
    BY <1>1, <2>1
  <2> HIDE DEF one, d
  <2>3. IsSeq(SubSeq(d, one, l)) /\ Len(SubSeq(d, one, l)) = l - one + 1
        /\ \A j \in 1..(l - one + 1) : SubSeq(d, one, l)[j] = d[one + j - 1]
    BY <2>2, Part, ZenonT(60)
  <2>4. l - one + 1 = l /\ \A j \in 1..l : one + j - 1 = j
    BY <2>2, <1>1
  <2> QED BY <2>2, <2>3, <2>4 DEF d
<1> HIDE DEF s, r, y, cs
<1>6. SameSlots(stk, cut) /\ cut.cis = cs
  BY <1>1, CIsDone
<1> HIDE DEF cut
<1>7. /\ ~IsLua(f.fn) /\ FnInfo[f.fn].kind = "pcall" /\ f.ready /\ ~f.ret /\ at = c.func + 1 + Len(f.want.pre)
      /\ f.want.pre = <<yes>> /\ at + 3 <= c.top
  BY <1>1 DEF DealOK
<1>8. Shape(c, f) /\ Placed(stk, c, f) /\ c.func \in Nat /\ c.top \in Nat /\ f.fn \in DOMAIN FnInfo
      /\ Low(c, f) \in Nat /\ Low(c, f) <= c.func
  BY <1>1, ShapeFacts DEF FrameOK
<1>9. ~Spread(f) /\ FnInfo[f.fn].vararg = FALSE
  BY <1>7, <1>8, FnFacts DEF Spread
<1>10. at = c.func + 2 /\ at \in Nat /\ t = c.func + 5
  <2>1. Len(f.want.pre) = 1
    BY <1>7, Singles
  <2> DEFINE k == Len(f.want.pre)
             cf == c.func
  <2>2. k = 1 /\ cf \in Nat /\ at = cf + 1 + k
    BY <2>1, <1>7, <1>8
  <2> HIDE DEF k, cf, at
  <2>3. at = cf + 2 /\ at \in Nat /\ at + 3 = cf + 5
    BY <2>2
  <2> QED BY <2>3 DEF cf
<1>11. at + Len(s) <= cut.last + Extra /\ t <= Room(stk) /\ t \in Nat
  <2> DEFINE a == stk.last
             b == c.top
             w == Room(stk)
  <2>1. a \in Nat /\ Extra \in Nat /\ b \in Nat /\ w = a + Extra - 3 /\ b <= w /\ at \in Nat /\ t <= b /\ t = at + 3
    BY <1>1, <1>7, <1>8, <1>10, ExtraNat DEF StackOK, Room
  <2> HIDE DEF a, b, w, at, t
  <2>2. at + 3 <= a + Extra /\ t <= w /\ t \in Nat
    BY <2>1
  <2>3. cut.last = a
    BY <1>6 DEF SameSlots, a
  <2> QED BY <2>2, <2>3, <1>2 DEF w
<1> HIDE DEF at, t
<1>12. StackOK(cut)
  BY <1>6 DEF SameSlots
<1>13. StackOK(p) /\ p.last = cut.last /\ p.cis = cs /\ InPlace(p, at, s) /\ Agree(cut, p, at)
  <2> HIDE DEF p
  <2>1. p = Put(cut, at, s)
    BY DEF p
  <2>2. at \in Nat /\ at + Len(s) <= cut.last + Extra /\ IsSeq(s) /\ StackOK(cut)
    BY <1>2, <1>10, <1>11, <1>12
  <2>3. /\ StackOK(Put(cut, at, s)) /\ Put(cut, at, s).last = cut.last /\ Put(cut, at, s).cis = cut.cis
        /\ InPlace(Put(cut, at, s), at, s) /\ Agree(cut, Put(cut, at, s), at)
    BY <2>2, PutDoes
  <2> QED BY <2>1, <2>3, <1>6
<1> HIDE DEF p
<1>14. SameSlots(p, g) /\ g.top = t /\ g.cis = cs
  BY <1>3, <1>11, <1>13, ToppedDoes
<1>15. Agree(stk, g, at)
  <2>1. Agree(stk, cut, at)
    BY <1>1, <1>6, SlotsKept
  <2>2. Agree(p, g, at)
    BY <1>13, <1>14, SlotsKept
  <2>3. at \in Int
    BY <1>10
  <2>4. Agree(stk, p, at)
    BY <2>1, <2>3, <1>1, <1>13, AgreeSteps
  <2> QED BY <2>2, <2>3, <2>4, <1>1, AgreeSteps
<1>16. InPlace(g, at, s) /\ StackOK(g) /\ Room(g) = Room(stk)
  <2>1. InPlace(g, at, s)
    BY <1>13, <1>14, SlotsKept
  <2>2. g.last = stk.last
    BY <1>6, <1>13, <1>14 DEF SameSlots
  <2> QED BY <2>1, <2>2, <1>14 DEF SameSlots, Room
<1>17. InPlace(g, c.func + 1, y)
  <2>1. InPlace(stk, c.func + 1, y)
    BY <1>1 DEF RegsOK
  <2>2. c.func + 1 + Len(y) <= at /\ at \in Int
    BY <1>2, <1>8, <1>10
  <2> DEFINE b == c.func + 1
  <2>3. InPlace(stk, b, y) /\ b + Len(y) <= at
    BY <2>1, <2>2
  <2> HIDE DEF b
  <2>4. InPlace(g, b, y)
    BY <2>2, <2>3, <1>1, <1>2, <1>15, StaysInPlace
  <2> QED BY <2>4 DEF b
<1>18. InPlace(g, c.func + 1, r)
  <2>1. c.func + 1 + Len(y) = at
    BY <1>2, <1>8, <1>10
  <2> QED BY <2>1, <1>2, <1>16, <1>17, InPlaceJoined
<1>19. /\ DOMAIN f1 = {"fn", "regs", "extra", "open", "ready", "closed", "ret", "want"}
       /\ f1.fn = f.fn /\ f1.extra = f.extra /\ f1.ready = f.ready /\ f1.ret = f.ret /\ f1.closed = f.closed
       /\ f1.regs = r /\ f1.open = 2
  <2>1. DOMAIN f = {"fn", "regs", "extra", "open", "ready", "closed", "ret", "want"}
    BY <1>8 DEF Shape
  <2> QED BY <2>1, <1>4
<1> HIDE DEF Unwinds
<1>20. ~Spread(f1) /\ Low(c, f1) = Low(c, f)
  BY <1>9, <1>19 DEF Spread, Low
<1>21. Shape(c, f1)
  <2>1. ~IsLua(f1.fn) /\ FnInfo[f1.fn].kind = "pcall" /\ f1.ready
    BY <1>7, <1>19
  <2>2. f1.extra = <<>>
    BY <1>8, <1>9, <1>19 DEF Shape
  <2>3. InfoOK(c) /\ f.fn \in DOMAIN FnInfo /\ IsSeq(f.extra) /\ f.closed \in BOOLEAN /\ Low(c, f) \in Nat
        /\ f.ready \in BOOLEAN /\ f.ret \in BOOLEAN
    BY <1>8 DEF Shape
  <2>4. InfoOK(c) /\ f1.fn \in DOMAIN FnInfo /\ IsSeq(f1.regs) /\ IsSeq(f1.extra)
    BY <2>3, <1>2, <1>19
  <2>5. f1.ready \in BOOLEAN /\ f1.closed \in BOOLEAN /\ f1.ret \in BOOLEAN
    BY <2>3, <1>19
  <2>6. Low(c, f1) \in Nat
    BY <2>3, <1>20
  <2>7. f1.open \in Int /\ f1.open >= -1 /\ f1.open # -1
    BY <1>19
  <2>8. IF Spread(f1) THEN c.nextra = Len(f1.extra) ELSE f1.extra = <<>>
    BY <2>2, <1>20
  <2>9. DOMAIN f1 = {"fn", "regs", "extra", "open", "ready", "closed", "ret", "want"}
    BY <1>19
  <2> QED BY <2>1, <2>4, <2>5, <2>6, <2>7, <2>8, <2>9 DEF Shape
<1>22. Placed(g, c, f1)
  <2>1. Has(stk, c.func, f.fn)
    BY <1>7, <1>8 DEF Placed
  <2>2. c.func < at /\ at \in Int
    BY <1>8, <1>10
  <2>3. Has(g, c.func, f.fn)
    BY <2>1, <2>2, <1>1, <1>15, HasStays
  <2> QED BY <2>3, <1>19, <1>20 DEF Placed
<1>23. g.top = End(c, f1)
  BY <1>2, <1>8, <1>10, <1>14, <1>19 DEF End
<1>24. OpOK(g, c, f1)
  BY <1>7, <1>11, <1>14, <1>16, <1>18, <1>19, <1>23 DEF OpOK, RegsOK
<1>25. Agree(stk, g, Low(c, f))
  <2>1. Low(c, f) \in Int /\ at \in Int /\ Low(c, f) <= at
    BY <1>8, <1>10
  <2> QED BY <2>1, <1>1, <1>15, AgreeBelow
<1> QED BY <1>5, <1>14, <1>20, <1>21, <1>22, <1>24, <1>25 DEF Catches, FrameOK

(* A step has cut the frames back to a C function's, and the machine stack *)
(* to its activation.                                                      *)
CutBack ==
  \E l, f1, k :
    /\ l \in 1..Len(lua) /\ f1.fn \in DOMAIN FnInfo /\ ~IsLua(f1.fn) /\ f1.ready
    /\ Len(lua') = l /\ lua'[l] = f1 /\ \A j \in 1..(l - 1) : lua'[j] = lua[j]
    /\ StackOK(stk') /\ stk.last <= stk'.last
    /\ Len(stk'.cis) = l /\ \A j \in 1..l : stk'.cis[j] = stk.cis[j]
    /\ k \in 0..Len(nat) /\ nat' = SubSeq(nat, 1, k) /\ nat'[Len(nat')].kind = "cfn" /\ rep' = FALSE

(* An error unwinds the machine stack and the frames to the innermost      *)
(* pcall.                                                                  *)
LEMMA ThrowKeeps ==
  ASSUME LoopInv, DataInv, StackHolds, Throw
  PROVE  DataInv' /\ CutBack
<1> DEFINE guards == {i \in DOMAIN nat : nat[i].kind = "pcall"}
           g == Max(guards)
           op == "throw"
<1>1. /\ Executes(op) /\ guards # {}
      /\ stk' = Topped(Put([stk EXCEPT !.cis = SubSeq(@, 1, nat[g].a)], nat[g].n, <<oops, no, oops>>), nat[g].n + 3)
      /\ lua' = Append(SubSeq(lua, 1, nat[g].a - 1),
                       [lua[nat[g].a] EXCEPT !.regs = <<yes, oops, no, oops>>, !.open = 2])
      /\ nat' = SubSeq(nat, 1, g - 1) /\ rax' = rax /\ rep' = rep /\ prog' = prog
  BY DEF Throw
<1> HIDE DEF op
<1>2. /\ (\E link : Running(link)) /\ fuel' \in Nat
  BY <1>1, Executing
<1>3. PICK link : Running(link)
  BY <1>2
<1>4. /\ HoldsOK(stk, lua, nat, link) /\ Len(link) = Len(lua) - 1 /\ IsSeq(nat) /\ Len(nat) \in Nat
      /\ Len(lua) \in Nat \ {0} /\ IsSeq(lua) /\ rax = -1 /\ rep = FALSE /\ prog \in Programs
      /\ Serving(nat, link)
  BY <1>3 DEF Running, HoldsOK
<1>5. g \in DOMAIN nat /\ nat[g].kind = "pcall"
  <2>1. guards \in SUBSET (1..Len(nat))
    BY <1>4, SeqFacts
  <2>2. g \in guards
    <3> HIDE DEF guards
    <3> QED BY <1>1, <1>4, <2>1, Innermost
  <2> QED BY <2>2
<1> HIDE DEF g, guards
<1>6. PICK l, c, f : Unwinds(link, l, nat[g], c, f) /\ link[l] = g
  BY <1>3, <1>5, GuardFound
<1> DEFINE x == nat[g]
           f1 == [f EXCEPT !.regs = <<yes, oops, no, oops>>, !.open = 2]
           to == SubSeq(link, 1, l - 1)
<1>7. /\ l \in 1..(Len(lua) - 1) /\ l \in 1..Len(link) /\ l \in Nat /\ x.a = l /\ c = stk.cis[l] /\ f = lua[l]
      /\ g \in 2..Len(nat) /\ nat[g - 1].kind = "cfn"
  BY <1>6 DEF Unwinds
<1>8. stk' = Topped(Put([stk EXCEPT !.cis = SubSeq(@, 1, l)], x.n, <<oops, no, oops>>), x.n + 3)
  BY <1>1, <1>7
<1>9. lua' = Append(SubSeq(lua, 1, l - 1), f1)
  BY <1>1, <1>7
<1>10. Catches(stk', l, x, c, f, f1)
  <2> HIDE DEF x
  <2>1. Unwinds(link, l, x, c, f)
    BY <1>6 DEF x
  <2>2. f1 = [f EXCEPT !.regs = <<yes, oops, no, oops>>, !.open = 2]
    OBVIOUS
  <2> HIDE DEF f1
  <2> QED BY <2>1, <2>2, <1>8, ErrorCaught
<1> HIDE DEF f1, x
<1>11. /\ IsSeq(stk'.cis) /\ Len(stk'.cis) = l /\ \A j \in 1..l : stk'.cis[j] = stk.cis[j]
       /\ Agree(stk, stk', Low(c, f)) /\ FrameOK(stk', c, f1) /\ Low(c, f1) = Low(c, f) /\ OpOK(stk', c, f1)
  BY <1>10 DEF Catches
<1>12. /\ IsSeq(lua') /\ Len(lua') = l /\ \A j \in 1..(l - 1) : lua'[j] = lua[j]
       /\ lua'[l] = f1
  <2> DEFINE one == 1
             d == l - 1
             q == SubSeq(lua, one, d)
  <2>1. one = 1 /\ one \in 1..(Len(lua) + 1) /\ d \in (one - 1)..Len(lua) /\ d \in Nat /\ d = l - 1 /\ d + 1 = l
    BY <1>4, <1>7
  <2>2. lua' = Append(q, f1)
    BY <1>9
  <2> HIDE DEF one, d
  <2>3. IsSeq(q) /\ Len(q) = d - one + 1 /\ \A j \in 1..(d - one + 1) : q[j] = lua[one + j - 1]
    BY <2>1, <1>4, Part
  <2>4. d - one + 1 = d /\ \A j \in 1..d : one + j - 1 = j
    BY <2>1
  <2>5. Len(q) = d /\ \A j \in 1..d : q[j] = lua[j]
    BY <2>3, <2>4
  <2> HIDE DEF q
  <2>6. Longer(q, Append(q, f1), f1)
    BY <2>3, AppendLonger
  <2> QED BY <2>1, <2>2, <2>5, <2>6 DEF Longer
<1>13. /\ IsSeq(nat') /\ Len(nat') = g - 1 /\ \A i \in 1..(g - 1) : nat'[i] = nat[i]
  <2> DEFINE one == 1
             d == g - 1
  <2>1. one = 1 /\ one \in 1..(Len(nat) + 1) /\ d \in (one - 1)..Len(nat) /\ d \in Nat /\ d = g - 1
    BY <1>4, <1>7
  <2>2. nat' = SubSeq(nat, one, d)
    BY <1>1
  <2> HIDE DEF one, d
  <2>3. IsSeq(SubSeq(nat, one, d)) /\ Len(SubSeq(nat, one, d)) = d - one + 1
        /\ \A j \in 1..(d - one + 1) : SubSeq(nat, one, d)[j] = nat[one + j - 1]
    BY <2>1, <1>4, Part
  <2>4. d - one + 1 = d /\ \A j \in 1..d : one + j - 1 = j
    BY <2>1
  <2> QED BY <2>1, <2>2, <2>3, <2>4
<1>14. nat'[Len(nat')].kind = "cfn"
  <2>1. g - 1 \in 1..(g - 1)
    BY <1>7
  <2> QED BY <2>1, <1>7, <1>13
<1>15. /\ Serving(nat', to) /\ Len(to) = l - 1
       /\ \A j \in 1..(l - 1) : to[j] = link[j] /\ nat'[link[j]] = nat[link[j]]
  <2> DEFINE m == nat'
             d == l - 1
  <2>1. IsSeq(m) /\ Len(m) <= Len(nat) /\ \A i \in 1..Len(m) : m[i] = nat[i]
    BY <1>4, <1>7, <1>13
  <2>2. d \in 0..Len(link) /\ to = SubSeq(link, 1, d)
    BY <1>4, <1>7
  <2>3. \A j \in 1..Len(link) : link[j] <= Len(m) <=> j <= d
    <3> SUFFICES ASSUME NEW j \in 1..Len(link)
                 PROVE  link[j] <= Len(m) <=> j <= d
      OBVIOUS
    <3>1. link[j] \in 1..Len(nat) /\ link[l] = g /\ g \in 1..Len(nat)
      BY <1>4, <1>6, <1>7 DEF Serving
    <3>2. j < l => link[j] < g
      BY <1>4, <1>6, <1>7 DEF Serving
    <3>3. l < j => g < link[j]
      BY <1>4, <1>6, <1>7 DEF Serving
    <3>4. j = l => link[j] = g
      BY <1>6
    <3> DEFINE a == link[j]
               b == Len(m)
    <3>5. a \in Int /\ g \in Int /\ b = g - 1 /\ j \in Int /\ l \in Int
      BY <3>1, <1>4, <1>7, <1>13
    <3> HIDE DEF a, b, m
    <3>6. (j < l => a < g) /\ (l < j => g < a) /\ (j = l => a = g)
      BY <3>2, <3>3, <3>4 DEF a
    <3>7. a <= b <=> j <= d
      <4>1. j < l \/ j = l \/ l < j
        BY <3>5
      <4>2. CASE j < l
        BY <4>2, <3>5, <3>6
      <4>3. CASE j = l
        BY <4>3, <3>5, <3>6
      <4>4. CASE l < j
        BY <4>4, <3>5, <3>6
      <4> QED BY <4>1, <4>2, <4>3, <4>4
    <3> QED BY <3>7 DEF a, b
  <2> HIDE DEF m, d
  <2>4. /\ Serving(m, SubSeq(link, 1, d)) /\ Len(SubSeq(link, 1, d)) = d
        /\ \A j \in 1..d : SubSeq(link, 1, d)[j] = link[j] /\ m[link[j]] = nat[link[j]]
    BY <2>1, <2>2, <2>3, <1>4, ServingCut
  <2> QED BY <2>2, <2>4 DEF m, d
<1> HIDE DEF to
<1>16. CutStep(link, l, stk', lua', nat', to)
  <2>1. \A j \in 1..(l - 1) : nat'[to[j]] = nat[link[j]]
    BY <1>15
  <2>2. Len(to) = IF nat'[Len(nat')].kind \in Helper \cup {"ctail"} THEN l ELSE l - 1
    BY <1>14, <1>15 DEF Helper
  <2> QED BY <2>1, <2>2, <1>4, <1>7, <1>11, <1>12, <1>15 DEF CutStep
<1>17. HoldsOK(stk', lua', nat', to)
  BY <1>16, HoldsCut
<1>18. TopOK(stk', nat'[Len(nat')], l, c, f1, -1, FALSE)
  <2>1. ~f1.ret
    BY <1>11 DEF OpOK
  <2> QED BY <2>1, <1>11, <1>14 DEF TopOK, Entry, Helper
<1>19. stk'.cis[l] = c
  <2>1. l \in 1..l
    BY <1>7
  <2> QED BY <2>1, <1>7, <1>11
<1>20. TopOK(stk', nat'[Len(nat')], Len(lua'), stk'.cis[Len(lua')], lua'[Len(lua')], rax', rep')
  BY <1>1, <1>4, <1>12, <1>18, <1>19
<1>21. prog' \in Programs /\ fuel' \in Nat
  BY <1>1, <1>2, <1>4
<1>22. DataInv'
  BY <1>17, <1>20, <1>21 DEF DataInv
<1>23. CutBack
  <2>1. f1.fn \in DOMAIN FnInfo /\ ~IsLua(f1.fn) /\ f1.ready
    BY <1>11 DEF FrameOK, Shape, OpOK
  <2>2. StackOK(stk') /\ stk.last <= stk'.last
    BY <1>11 DEF Agree
  <2> DEFINE k == g - 1
  <2>3. k \in 0..Len(nat) /\ nat' = SubSeq(nat, 1, k) /\ l \in 1..Len(lua) /\ rep' = FALSE
    BY <1>1, <1>4, <1>7
  <2> HIDE DEF k
  <2> QED BY <2>1, <2>2, <2>3, <1>11, <1>12, <1>14 DEF CutBack
<1> QED BY <1>22, <1>23

-----------------------------------------------------------------------------
(* The whole program.                                                      *)

(* What RegistersPrivate asks of one frame.                                *)
Shown(m, c, f) ==
  IF f.ret THEN Read(m, c.func, Len(f.regs)) = f.regs
  ELSE /\ At(m, c.func) = f.fn
       /\ Read(m, c.func + 1, Len(f.regs)) = f.regs
       /\ Read(m, c.func - Len(f.extra), Len(f.extra)) = f.extra

(* A frame whose values are in place is one that can be read.              *)
LEMMA FrameShown ==
  ASSUME NEW m, StackOK(m), NEW c, NEW f, FrameOK(m, c, f),
         f.ret => InPlace(m, c.func, f.regs), ~f.ret => RegsOK(m, c, f)
  PROVE  Shown(m, c, f)
<1>1. Shape(c, f) /\ Placed(m, c, f) /\ IsSeq(f.regs) /\ IsSeq(f.extra) /\ f.ret \in BOOLEAN
      /\ IF Spread(f) THEN c.nextra = Len(f.extra) ELSE f.extra = <<>>
  BY DEF FrameOK, Shape
<1> DEFINE r == f.regs
           e == f.extra
           a == c.func
           b == c.func + 1
           d == c.func - Len(f.extra)
<1>2. CASE f.ret
  <2>1. InPlace(m, a, r) /\ IsSeq(r)
    BY <1>1, <1>2
  <2> HIDE DEF a, r
  <2>2. Read(m, a, Len(r)) = r
    BY <2>1, ReadInPlace
  <2> QED BY <2>2, <1>2 DEF Shown, a, r
<1>3. CASE ~f.ret
  <2>1. At(m, c.func) = f.fn
    <3> DEFINE v == f.fn
    <3>1. Has(m, a, v)
      BY <1>1, <1>3 DEF Placed
    <3> HIDE DEF a, v
    <3>2. At(m, a) = v
      BY <3>1, HasOne
    <3> QED BY <3>2 DEF a, v
  <2>2. Read(m, b, Len(r)) = r
    <3>1. InPlace(m, b, r) /\ IsSeq(r)
      BY <1>1, <1>3 DEF RegsOK
    <3> HIDE DEF b, r
    <3> QED BY <3>1, ReadInPlace
  <2>3. Read(m, d, Len(e)) = e
    <3>1. CASE Spread(f)
      <4>1. InPlace(m, d, e) /\ IsSeq(e)
        BY <1>1, <3>1 DEF Placed
      <4> HIDE DEF d, e
      <4> QED BY <4>1, ReadInPlace
    <3>2. CASE ~Spread(f)
      <4>1. e = <<>> /\ Len(e) = 0
        BY <1>1, <3>2, Singles
      <4> HIDE DEF d, e
      <4>2. Read(m, d, 0) = <<>>
        BY DEF Read
      <4> QED BY <4>1, <4>2
    <3> QED BY <3>1, <3>2
  <2> QED BY <2>1, <2>2, <2>3, <1>3 DEF Shown
<1> QED BY <1>1, <1>2, <1>3

(* The two properties follow from the invariant.                           *)
LEMMA DataShows ==
  ASSUME LoopInv, DataInv, StackHolds
  PROVE  RegistersPrivate /\ ListEndsAtTop
<1> DEFINE K == Len(lua)
           x == nat[Len(nat)]
           c == stk.cis[K]
           f == lua[K]
<1>1. PICK link : HoldsOK(stk, lua, nat, link)
  BY DEF DataInv
<1>2. /\ StackOK(stk) /\ IsSeq(stk.cis) /\ IsSeq(lua) /\ Len(stk.cis) = K /\ K >= 1 /\ Len(link) >= K - 1
      /\ Serving(nat, link) /\ FrameOK(stk, c, f)
      /\ LowerOK(stk, stk.cis, lua, nat, link, K, c.n, Low(c, f))
  <2>1. K \in Nat
    BY <1>1, SeqFacts DEF HoldsOK
  <2>2. Len(link) = K \/ Len(link) = K - 1
    BY <1>1 DEF HoldsOK
  <2>3. Len(link) >= K - 1
    <3> DEFINE k == Len(link)
    <3>1. k = K \/ k = K - 1
      BY <2>2
    <3> HIDE DEF k, K
    <3>2. k >= K - 1
      BY <2>1, <3>1
    <3> QED BY <3>2 DEF k
  <2> QED BY <1>1, <2>3 DEF HoldsOK
<1>3. K \in Nat /\ Len(nat) \in Nat \ {0} /\ IsSeq(nat) /\ Frame = f /\ Last(nat) = x /\ Last(stk.cis) = c
  <2>1. IsSeq(nat) /\ Len(nat) \in Nat \ {0}
    BY Anywhere
  <2>2. K \in Nat
    BY <1>2, SeqFacts
  <2> QED BY <2>1, <2>2, <1>2 DEF Frame, Last
<1>4. TopOK(stk, x, K, c, f, rax, rep)
  BY DEF DataInv
<1>5. ASSUME NEW i \in Settled PROVE Shown(stk, stk.cis[i], lua[i])
  <2>1. i \in 1..K
    BY <1>2, <1>3, <1>5 DEF Settled
  <2>2. CASE i < K
    <3>1. i \in 1..(K - 1)
      BY <2>1, <2>2, <1>3
    <3> DEFINE y == nat[link[i]]
               ci == stk.cis[i]
               fi == lua[i]
    <3>2. FrameOK(stk, ci, fi) /\ RegsOK(stk, ci, fi) /\ DealOK(stk, y, i, ci, fi)
      BY <1>2, <3>1 DEF LowerOK, OneOK
    <3>3. ~fi.ret
      BY <3>2 DEF DealOK
    <3> HIDE DEF y, ci, fi
    <3>4. Shown(stk, ci, fi)
      BY <3>2, <3>3, <1>2, FrameShown
    <3> QED BY <3>4 DEF ci, fi
  <2>3. CASE i = K
    <3>1. rax = -1 \/ f.ret \/ rep
      <4>1. K \notin 1..(K - 1)
        BY <1>3
      <4> QED BY <4>1, <2>3, <1>3, <1>5 DEF Settled
    <3>2. (f.ret => InPlace(stk, c.func, f.regs)) /\ (~f.ret => RegsOK(stk, c, f))
      <4>1. CASE f.ret
        <5>1. LeftOK(stk, c, f, rax)
          BY <1>4, <4>1 DEF TopOK
        <5> QED BY <5>1, <4>1 DEF LeftOK
      <4>2. CASE ~f.ret
        <5>1. RunOK(stk, c, f) \/ OpOK(stk, c, f)
          BY <1>4, <3>1, <4>2 DEF TopOK
        <5> QED BY <5>1, <4>2 DEF RunOK, OpOK
      <4> QED BY <4>1, <4>2
    <3> HIDE DEF c, f
    <3>3. Shown(stk, c, f)
      BY <3>2, <1>2, FrameShown
    <3> QED BY <3>3, <2>3 DEF c, f
  <2>4. i < K \/ i = K
    BY <2>1, <1>3
  <2> QED BY <2>2, <2>3, <2>4
<1>6. RegistersPrivate
  <2>1. Len(stk.cis) = Len(lua)
    BY <1>2
  <2>2. \A i \in Settled : Shown(stk, stk.cis[i], lua[i])
    BY <1>5
  <2> QED BY <2>1, <2>2 DEF RegistersPrivate, Shown
<1>7. ListEndsAtTop
  <2>1. ASSUME Runs("body"), Frame.open >= 0 \/ ~Frame.ready
        PROVE  stk.top = Base(stk) + Live
    <3>1. x.kind = "body"
      BY <2>1, <1>3 DEF Runs
    <3>2. RunOK(stk, c, f)
      BY <3>1, <1>4 DEF TopOK
    <3>3. ~f.ready \/ f.open >= 0
      BY <2>1, <1>3
    <3>4. stk.top = c.func + 1 + Len(f.regs)
      BY <3>2, <3>3 DEF RunOK, End
    <3> QED BY <3>4, <1>3 DEF Base, Live
  <2>2. ASSUME Last(nat).kind \in {"rtcall", "ccall", "drive"}, ~rep
        PROVE  stk.top = Last(stk.cis).func + Live /\ rax = Live
    <3>1. LeftOK(stk, c, f, rax)
      BY <2>2, <1>3, <1>4 DEF TopOK, Entry
    <3> QED BY <3>1, <1>3 DEF LeftOK, Live
  <2> QED BY <2>1, <2>2 DEF ListEndsAtTop
<1> QED BY <1>6, <1>7

(* The stack the program starts with.                                      *)
Started(m, ci, given) ==
  /\ StackOK(m) /\ m.cis = <<ci>> /\ m.top = ci.func + 1 + Len(given) /\ m.top <= Room(m)
  /\ Has(m, ci.func, Host) /\ InPlace(m, ci.func + 1, given)
  /\ InfoOK(ci) /\ ci.func \in Nat /\ ci.nextra = 0
(* The chunk and its arguments lie above the C function that runs it.      *)
LEMMA StackStarts ==
  ASSUME NEW p \in Programs, NEW given, given = <<p.start>> \o Tokens(p.args), fuel \in Nat,
         NEW none, StackOK(none), none.top = p.args + 2, none.last = p.last, none.cis = <<>>,
         NEW m, m = Put(PushCI(none, 0, 1 + MinStack, 0), 0, <<Host>> \o given)
  PROVE  /\ Started(m, [func |-> 0, top |-> 1 + MinStack, n |-> 0, drive |-> FALSE, nextra |-> 0], given)
         /\ IsSeq(given) /\ Len(given) \in Nat \ {0} /\ given[1] = p.start
<1> DEFINE a == 0
           t == 1 + MinStack
           w == <<Host>> \o given
           q == PushCI(none, a, t, a)
           ci == [func |-> a, top |-> t, n |-> a, drive |-> FALSE, nextra |-> 0]
           last == p.last
           k == p.args
<1>1. k \in Nat /\ last \in Nat /\ k + 2 + MinStack <= last /\ Extra \in Nat /\ Extra >= 3 /\ MinStack \in Nat
  BY CallsAssumption
<1>2. a = 0 /\ a \in Nat /\ a \in Int /\ a >= -1 /\ t \in Nat
  BY <1>1
<1>3. /\ IsSeq(given) /\ Len(given) = 1 + k /\ given[1] = p.start
  <2> DEFINE d == <<p.start>>
             s == Tokens(k)
  <2>1. IsSeq(d) /\ Len(d) = 1 /\ d[1] = p.start
    BY Singles
  <2>2. IsSeq(s) /\ Len(s) = k
    BY <1>1, TokensSeq
  <2>3. given = d \o s
    OBVIOUS
  <2> HIDE DEF d, s
  <2>4. IsSeq(d \o s) /\ Len(d \o s) = Len(d) + Len(s)
    BY <2>1, <2>2, Joined
  <2>5. \A i \in 1..Len(d) : (d \o s)[i] = d[i]
    BY <2>1, <2>2, Joined
  <2>6. 1 \in 1..Len(d)
    BY <2>1
  <2> QED BY <2>1, <2>2, <2>3, <2>4, <2>5, <2>6
<1>4. IsSeq(w) /\ Len(w) = 2 + k
  <2> DEFINE d == <<Host>>
  <2>1. IsSeq(d) /\ Len(d) = 1
    BY Singles
  <2> HIDE DEF d
  <2>2. IsSeq(d \o given) /\ Len(d \o given) = Len(d) + Len(given)
    BY <2>1, <1>3, Joined
  <2>3. Len(d \o given) = 2 + k
    BY <2>1, <2>2, <1>1, <1>3
  <2> QED BY <2>2, <2>3 DEF d
<1>5. /\ StackOK(none) /\ none.top = k + 2 /\ none.last = last /\ none.cis = <<>>
  OBVIOUS
<1>6. m = Put(q, a, w)
  BY <1>2
<1> HIDE DEF a, t, w, q
<1>7. SameSlots(none, q) /\ q.top = none.top /\ q.cis = Append(none.cis, ci)
  <2>1. StackOK(none)
    BY <1>5
  <2>2. SameSlots(none, q) /\ q.top = none.top /\ q.cis = Append(none.cis, ci)
    BY <2>1, PushCIDoes DEF q
  <2> QED BY <2>2
<1>8. StackOK(q) /\ q.last = last /\ q.top = k + 2
  BY <1>5, <1>7 DEF SameSlots
<1>9. StackOK(m) /\ m.top = k + 2 /\ m.last = last /\ m.cis = q.cis /\ InPlace(m, a, w)
  <2> DEFINE b == q.last
             e == Len(w)
  <2>1. b = last /\ e = 2 + k
    BY <1>4, <1>8
  <2> HIDE DEF b, e, last, k
  <2>2. a + e <= b + Extra
    BY <2>1, <1>1, <1>2
  <2>3. a \in Nat /\ a + Len(w) <= q.last + Extra /\ IsSeq(w) /\ StackOK(q)
    BY <2>2, <1>2, <1>4, <1>8 DEF b, e
  <2>4. /\ StackOK(Put(q, a, w)) /\ Put(q, a, w).top = q.top /\ Put(q, a, w).last = q.last
        /\ Put(q, a, w).cis = q.cis /\ InPlace(Put(q, a, w), a, w)
    BY <2>3, PutDoes
  <2> QED BY <2>4, <1>6, <1>8
<1>10. m.cis = <<ci>>
  <2>1. Append(<<>>, ci) = <<ci>>
    OBVIOUS
  <2> QED BY <2>1, <1>5, <1>7, <1>9
<1>11. Has(m, a, Host) /\ InPlace(m, a + 1, given)
  <2> DEFINE d == <<Host>>
  <2>1. IsSeq(d) /\ Len(d) = 1 /\ w = d \o given
    BY Singles DEF w
  <2> HIDE DEF d
  <2>2. InPlace(m, a, d \o given)
    BY <2>1, <1>9
  <2>3. InPlace(m, a, d) /\ InPlace(m, a + Len(d), given)
    BY <2>1, <2>2, <1>3, <1>9, InPlaceJoined
  <2>4. InPlace(m, a, <<Host>>)
    BY <2>3 DEF d
  <2>5. Has(m, a, Host)
    BY <2>4, <1>9, HasOne
  <2> QED BY <2>1, <2>3, <2>5
<1>12. InfoOK(ci) /\ ci.func = a /\ ci.nextra = 0
  BY <1>2, NewInfo
<1>13. m.top <= Room(m) /\ m.top = a + 1 + Len(given)
  <2> DEFINE r == Room(m)
             h == m.top
             b == m.last
             e == Len(given)
  <2>1. h = k + 2 /\ b = last /\ r = b + Extra - 3 /\ e = 1 + k
    BY <1>3, <1>9 DEF Room
  <2> HIDE DEF r, h, b, e, last, k
  <2>2. h <= r /\ h = a + 1 + e
    BY <2>1, <1>1, <1>2
  <2> QED BY <2>2 DEF r, h, e
<1>14. Started(m, ci, given)
  <2> HIDE DEF ci
  <2> QED BY <1>2, <1>9, <1>10, <1>11, <1>12, <1>13 DEF Started
<1>15. Len(given) \in Nat \ {0}
  <2> HIDE DEF k
  <2> QED BY <1>1, <1>3
<1> QED BY <1>3, <1>14, <1>15 DEF a, t

(* The program starts with every value in place.                           *)
LEMMA CallsInitData == CallsInit => DataInv
<1> SUFFICES ASSUME CallsInit PROVE DataInv
  OBVIOUS
<1> DEFINE given == <<prog.start>> \o Tokens(prog.args)
           none == [mem |-> [i \in 0..(prog.last + Extra - 1) |-> nil], top |-> Len(given) + 1,
                    last |-> prog.last, cis |-> <<>>]
           ci == [func |-> 0, top |-> 1 + MinStack, n |-> 0, drive |-> FALSE, nextra |-> 0]
           f == Called(Host, given)
           link == <<>>
           at == ci.func
           t == ci.top
<1>1. /\ prog \in Programs /\ fuel = prog.fuel /\ rax = -1 /\ rep = FALSE /\ nat = <<CFunction>>
      /\ stk = Put(PushCI(none, 0, 1 + MinStack, 0), 0, <<Host>> \o given) /\ lua = <<f>>
  BY DEF CallsInit
<1>2. fuel \in Nat
  BY <1>1, CallsAssumption
<1>3. prog.start \in DOMAIN FnInfo /\ TakesAnything(prog.start) /\ Host \in DOMAIN FnInfo /\ FnInfo[Host].kind = "calls"
  <2>1. prog.start \in prog.fns \cup {prog.start, prog.inner}
    OBVIOUS
  <2> QED BY <2>1, <1>1, CallsAssumption DEF TakesAnything
<1>a. StackOK(none) /\ none.top = prog.args + 2 /\ none.last = prog.last /\ none.cis = <<>>
  <2> DEFINE last == prog.last
             k == prog.args
             e == Len(given)
  <2>1. k \in Nat /\ last \in Nat /\ Extra \in Nat
    BY <1>1, CallsAssumption
  <2>2. e = 1 + k
    <3> DEFINE d == <<prog.start>>
               s == Tokens(k)
    <3>1. IsSeq(d) /\ Len(d) = 1
      BY Singles
    <3>2. IsSeq(s) /\ Len(s) = k
      BY <1>2, <2>1, TokensSeq
    <3>3. given = d \o s
      OBVIOUS
    <3> HIDE DEF d, s, given
    <3>4. Len(d \o s) = Len(d) + Len(s)
      BY <3>1, <3>2, Joined
    <3> QED BY <3>1, <3>2, <3>3, <3>4
  <2> HIDE DEF last, k, e
  <2>3. none.top = k + 2 /\ none.last = last /\ none.cis = <<>>
        /\ DOMAIN none = {"mem", "top", "last", "cis"} /\ DOMAIN none.mem = 0..(last + Extra - 1)
    BY <2>1, <2>2 DEF last, e
  <2>4. k + 2 \in Nat
    BY <2>1
  <2> HIDE DEF none
  <2> QED BY <2>1, <2>3, <2>4 DEF StackOK, last, k
<1> HIDE DEF none
<1>4. Started(stk, ci, given) /\ IsSeq(given) /\ Len(given) \in Nat \ {0} /\ given[1] = prog.start
  BY <1>1, <1>2, <1>a, StackStarts
<1> HIDE DEF given
<1>5. /\ ~IsLua(Host) /\ ~FnInfo[Host].vararg
  BY <1>3, FnFacts
<1>6. /\ f.fn = Host /\ f.extra = <<>> /\ f.open = -1 /\ f.ready = TRUE /\ f.closed = FALSE /\ f.ret = FALSE
      /\ f.regs = given /\ DOMAIN f = {"fn", "regs", "extra", "open", "ready", "closed", "ret", "want"}
  <2>1. f.regs = Given(Host, given)
    BY <1>3, <1>4, <1>5, CalledRegs
  <2>2. Given(Host, given) = given
    BY <1>3, <1>4, <1>5, GivenFacts
  <2>3. f.ready = ~FnInfo[Host].vararg /\ FnInfo[Host].vararg \in BOOLEAN
    BY <1>3, FnFacts, CalledFields
  <2> QED BY <2>1, <2>2, <2>3, <1>5, CalledFields
<1> HIDE DEF f, ci
<1>7. /\ StackOK(stk) /\ stk.cis = <<ci>> /\ stk.top = ci.func + 1 + Len(given) /\ stk.top <= Room(stk)
      /\ Has(stk, ci.func, Host) /\ InPlace(stk, ci.func + 1, given)
      /\ InfoOK(ci) /\ ci.func \in Nat /\ ci.nextra = 0
  BY <1>4 DEF Started
<1>8. ~Spread(f) /\ Low(ci, f) = ci.func
  BY <1>5, <1>6 DEF Spread, Low
<1>9. Shape(ci, f)
  <2>1. Len(f.regs) >= 1 /\ Function(f.regs[1])
    BY <1>3, <1>4, <1>6 DEF Function
  <2>2. IsSeq(f.regs) /\ IsSeq(f.extra) /\ f.fn \in DOMAIN FnInfo
    BY <1>3, <1>4, <1>6, Singles
  <2>3. f.open \in Int /\ f.open >= -1 /\ ~(f.open >= 0)
    BY <1>6
  <2>4. f.ready \in BOOLEAN /\ f.closed \in BOOLEAN /\ f.ret \in BOOLEAN /\ f.ready
    BY <1>6
  <2>5. Low(ci, f) \in Nat /\ ~IsLua(f.fn)
    BY <1>5, <1>6, <1>7, <1>8
  <2> QED BY <2>1, <2>2, <2>3, <2>4, <2>5, <1>6, <1>7, <1>8 DEF Shape
<1>10. FrameOK(stk, ci, f)
  BY <1>6, <1>7, <1>8, <1>9 DEF FrameOK, Placed
<1>11. OpOK(stk, ci, f)
  BY <1>3, <1>5, <1>6, <1>7 DEF OpOK, RegsOK, End
<1>12. /\ IsSeq(stk.cis) /\ Len(stk.cis) = 1 /\ stk.cis[1] = ci /\ IsSeq(lua) /\ Len(lua) = 1 /\ lua[1] = f
       /\ IsSeq(nat) /\ Len(nat) = 1 /\ nat[1] = CFunction /\ CFunction.kind = "cfn"
  <2>1. CFunction.kind = "cfn"
    BY DEF CFunction, Act
  <2> HIDE DEF CFunction
  <2> QED BY <2>1, <1>1, <1>7, Singles
<1>13. IsSeq(link) /\ Len(link) = 0
  BY Singles
<1> HIDE DEF link
<1>14. Serving(nat, link)
  <2>1. "cfn" \notin Server
    BY DEF Server, Helper
  <2>2. \A i \in 1..Len(nat) : nat[i].kind \notin Server
    BY <2>1, <1>12
  <2>3. 1..Len(link) = {}
    BY <1>13
  <2> QED BY <2>2, <2>3, <1>13 DEF Serving
<1>15. HoldsOK(stk, lua, nat, link)
  <2>1. "cfn" \notin Helper \cup {"ctail"}
    BY DEF Helper
  <2>2. LowerOK(stk, stk.cis, lua, nat, link, 1, ci.n, Low(ci, f))
    <3>1. 1..(1 - 1) = {}
      OBVIOUS
    <3> QED BY <3>1 DEF LowerOK
  <2>3. Len(lua) >= 1 /\ Len(link) = Len(lua) - 1
    BY <1>12, <1>13
  <2> QED BY <2>1, <2>2, <2>3, <1>7, <1>10, <1>12, <1>13, <1>14 DEF HoldsOK
<1>16. TopOK(stk, CFunction, 1, ci, f, -1, FALSE)
  BY <1>6, <1>11, <1>12 DEF TopOK, Entry, Helper
<1>17. TopOK(stk, nat[Len(nat)], Len(lua), stk.cis[Len(lua)], lua[Len(lua)], rax, rep)
  BY <1>1, <1>12, <1>16
<1> QED BY <1>1, <1>2, <1>15, <1>17 DEF DataInv

(* Every step keeps the values in place.                                   *)
LEMMA CallsNextData ==
  LoopInv /\ DataInv /\ StackHolds /\ (VarargPrep => StackHolds') /\ [CallsNext]_callsVars => DataInv'
<1> SUFFICES ASSUME LoopInv, DataInv, StackHolds, VarargPrep => StackHolds', [CallsNext]_callsVars PROVE DataInv'
  OBVIOUS
<1>1. CASE Instruction
  <2>1. CASE VarargPrep
    BY <2>1, VarargPrepKeeps
  <2>2. CASE Load
    BY <2>2, LoadKeeps
  <2>3. CASE NewTable
    BY <2>3, NewTableKeeps
  <2>4. CASE SetList
    BY <2>4, SetListKeeps
  <2>5. CASE Close
    BY <2>5, CloseKeeps
  <2>6. CASE TailOpen
    BY <2>6, TailOpenKeeps
  <2>7. CASE Throw
    BY <2>7, ThrowKeeps
  <2>8. CASE \E s \in Shapes, fn \in prog.fns : s[2] # MULTRET /\ Call(fn, s[1], s[2])
    <3>1. PICK s \in Shapes, fn \in prog.fns : s[2] # MULTRET /\ Call(fn, s[1], s[2])
      BY <2>8
    <3> DEFINE nargs == s[1]
               n == s[2]
    <3>2. nargs \in Nat /\ n \in Nat /\ Call(fn, nargs, n)
      BY <3>1, CallsAssumption DEF MULTRET
    <3> HIDE DEF nargs, n
    <3> QED BY <3>2, CallActionKeeps
  <2>9. CASE \E fn \in prog.fns : OpenVararg(fn) \/ \E g \in prog.fns : OpenCall(fn, g)
    BY <2>9, OpenVarargKeeps, OpenCallKeeps
  <2>10. CASE \E n \in Counts : CallOpen(n) \/ Vararg(n) \/ TForCall(n)
    BY <2>10, CallOpenKeeps, VarargKeeps, TForCallKeeps
  <2>11. CASE \E n \in Counts \cup {MULTRET} : Return(n)
    BY <2>11, ReturnKeeps
  <2>12. CASE \E s \in Shapes, fn \in prog.fns : s[2] = MULTRET /\ TailCall(fn, s[1])
    <3>1. PICK s \in Shapes, fn \in prog.fns : TailCall(fn, s[1])
      BY <2>12
    <3> DEFINE nargs == s[1]
    <3>2. nargs \in Nat /\ TailCall(fn, nargs)
      BY <3>1, CallsAssumption
    <3> HIDE DEF nargs
    <3> QED BY <3>2, TailCallKeeps
  <2>13. CASE \E r \in 0..(Live - 1) : Meta(r)
    BY <2>13, MetaKeeps
  <2> QED
    BY <1>1, <2>1, <2>2, <2>3, <2>4, <2>5, <2>6, <2>7, <2>8, <2>9, <2>10, <2>11, <2>12, <2>13
    DEF Instruction
<1>2. CASE Continuation
  BY <1>2, RtCallReturnsKeeps, SlowReturnsKeeps, CcallReturnsKeeps, MetaReturnsKeeps, TForReturnsKeeps,
     CloseReturnsKeeps, CTailReturnsKeeps, DriveReturnsKeeps, CResumesKeeps DEF Continuation
<1>3. CASE CCalls
  BY <1>3, CCallsKeeps
<1>4. CASE \E n \in Counts \cup {Live - Frame.open} : CReturn(n)
  BY <1>4, CReturnKeeps
<1>5. CASE Ended \/ UNCHANGED callsVars
  <2>1. /\ stk' = stk /\ nat' = nat /\ lua' = lua /\ rax' = rax /\ rep' = rep /\ fuel' = fuel /\ prog' = prog
    BY <1>5 DEF Ended, callsVars
  <2> QED BY <2>1 DEF DataInv
<1> QED
  BY <1>1, <1>2, <1>3, <1>4, <1>5 DEF CallsNext

(* As long as the frames stay on the stack, every value a function holds   *)
(* is where it put it.                                                     *)
LEMMA CallsSpecData == CallsSpec /\ []StackHolds => []DataInv
BY CallsInitData, CallsNextData, CallsSpecInv, PTL DEF CallsSpec

(* No call takes a register from the function that makes it: whatever the  *)
(* callee, its helpers and the collector do, the registers below a call,   *)
(* its function and its extra arguments are what they were when it is      *)
(* over, as long as every CallInfo's ceiling is on the stack and the top   *)
(* is above the registers wherever the collector may run.                  *)
THEOREM SpecRegistersPrivate == CallsSpec /\ []StackHolds => []RegistersPrivate
<1>1. LoopInv /\ DataInv /\ StackHolds => RegistersPrivate
  BY DataShows
<1> QED BY <1>1, CallsSpecInv, CallsSpecData, PTL

(* A list whose length only L->top tells ends there, and so do the results *)
(* a function has left: the two counts that compiled code passes on.       *)
THEOREM SpecListEndsAtTop == CallsSpec /\ []StackHolds => []ListEndsAtTop
<1>1. LoopInv /\ DataInv /\ StackHolds => ListEndsAtTop
  BY DataShows
<1> QED BY <1>1, CallsSpecInv, CallsSpecData, PTL

-----------------------------------------------------------------------------
(* Programs in which nothing has to be taken for granted: Rt_Call never    *)
(* enters a vararg function, only C code does; and a function that asks    *)
(* for an open "..." lets nothing lower the top before it.                 *)
PlainPrograms ==
  \A p \in Programs :
    /\ \A fn \in p.fns : ~FnInfo[fn].vararg
    /\ "dots" \in p.ops => "tfor" \notin p.ops /\ "table" \notin p.ops

(* The ceilings are on the stack.                                          *)
Ceiled(m) == \A i \in 1..Len(m.cis) : m.cis[i].top \in Nat /\ m.cis[i].top <= Room(m)
(* A vararg function that has not moved its frame has just its registers   *)
(* below the ceiling.                                                      *)
Unprepped(c, f) == ~f.ready => c.top = c.func + 1 + FnInfo[f.fn].size
(* One that may ask for "..." has them below the top.                      *)
Raisen(t, c, f, ops) ==
  f.ready /\ ~f.closed /\ f.open = -1 /\ FnInfo[f.fn].vararg /\ "dots" \in ops =>
    c.func + 1 + FnInfo[f.fn].size <= t
(* No generic loop waits for its iterator.                                 *)
NoLoop(n) == \A i \in 1..Len(n) : n[i].kind # "tfor"

(* What is asked of all frames, and of the one on top.                     *)
FramesFine(fs) == \A j \in 1..Len(fs) : OpenFine(fs[j])
TopFine(t, c, f, ops, active) == Unprepped(c, f) /\ (active => Raisen(t, c, f, ops))

PlainOK(m, fs, ns, r, p) ==
  /\ Ceiled(m) /\ FramesFine(fs)
  /\ TopFine(m.top, m.cis[Len(fs)], fs[Len(fs)], p.ops, ns[Len(ns)].kind = "body" \/ r)
  /\ "dots" \in p.ops => NoLoop(ns)
PlainInv == PlainOK(stk, lua, nat, rep, prog)

(* So what the code takes for granted holds.                               *)
LEMMA PlainHolds ==
  ASSUME LoopInv, \E link : HoldsOK(stk, lua, nat, link), PlainInv
  PROVE  StackHolds
<1>1. PICK link : HoldsOK(stk, lua, nat, link)
  OBVIOUS
<1>2. IsSeq(lua) /\ Len(lua) >= 1 /\ Len(stk.cis) = Len(lua)
  BY <1>1 DEF HoldsOK
<1>3. Frame = lua[Len(lua)] /\ Last(stk.cis) = stk.cis[Len(lua)]
  BY <1>2 DEF Frame, Last
<1>4. Last(nat) = nat[Len(nat)]
  BY FitParts DEF LoopInv
<1>5. Ceilings
  BY DEF PlainInv, PlainOK, Ceiled, Ceilings, Room
<1>6. KeptBelow
  <2> SUFFICES ASSUME Runs("body"), Frame.ready, ~Frame.closed, Frame.open = -1, FnInfo[Frame.fn].vararg,
                      "dots" \in prog.ops
               PROVE  Base(stk) + FrameSize <= stk.top
    BY DEF KeptBelow
  <2>1. Raisen(stk.top, Last(stk.cis), Frame, prog.ops)
    BY <1>3, <1>4 DEF Runs, PlainInv, PlainOK, TopFine
  <2> QED BY <2>1 DEF Raisen, Base, FrameSize
<1> QED BY <1>5, <1>6 DEF StackHolds

(* Writing slots, whichever, leaves the rest of the stack alone.           *)
LEMMA PutAny ==
  ASSUME NEW m, StackOK(m), NEW at, NEW vs
  PROVE  /\ StackOK(Put(m, at, vs)) /\ Put(m, at, vs).top = m.top
         /\ Put(m, at, vs).last = m.last /\ Put(m, at, vs).cis = m.cis
BY DEF Put, StackOK

(* g has the CallInfos of m, on a stack at least as large.                 *)
Like(m, g) == StackOK(g) /\ g.cis = m.cis /\ m.last <= g.last

(* The steps that leave the CallInfos alone.                               *)
LEMMA LikeSteps ==
  ASSUME NEW m, StackOK(m)
  PROVE  /\ Like(m, m)
         /\ \A at, vs : Like(m, Put(m, at, vs)) /\ Put(m, at, vs).top = m.top
         /\ \A t \in Nat : Like(m, Topped(m, t)) /\ Topped(m, t).top = t
         /\ Like(m, Collected(m)) /\ Collected(m).top = m.top
         /\ \A n \in Int : \A g \in CheckStackGC(m, n) : Like(m, g) /\ g.top = m.top /\ g.last >= m.top + n
         /\ \A n \in Int : LET g == CheckStack(m, n) IN Like(m, g) /\ g.top = m.top /\ g.last >= m.top + n
<1>1. m.last \in Nat /\ m.top \in Nat /\ m.last <= m.last
  BY DEF StackOK
<1>2. \A at, vs : Like(m, Put(m, at, vs)) /\ Put(m, at, vs).top = m.top
  BY <1>1, PutAny DEF Like
<1>3. \A t \in Nat : Like(m, Topped(m, t)) /\ Topped(m, t).top = t
  BY <1>1, ToppedDoes DEF Like, SameSlots
<1>4. Like(m, Collected(m)) /\ Collected(m).top = m.top
  BY <1>1, CollectedDoes DEF Like
<1>5. ASSUME NEW n \in Int PROVE \A g \in CheckStackGC(m, n) : Like(m, g) /\ g.top = m.top /\ g.last >= m.top + n
  BY CheckDoes DEF Like, Agree
<1>6. ASSUME NEW n \in Int
      PROVE  LET g == CheckStack(m, n) IN Like(m, g) /\ g.top = m.top /\ g.last >= m.top + n
  <2> DEFINE g == CheckStack(m, n)
  <2>1. StackOK(g) /\ g.top = m.top /\ g.cis = m.cis /\ g.last >= m.top + n /\ \A b : Agree(m, g, b)
    BY CheckDoes
  <2>2. Agree(m, g, 0)
    BY <2>1
  <2> HIDE DEF g
  <2>3. Like(m, g) /\ g.top = m.top /\ g.last >= m.top + n
    BY <2>1, <2>2 DEF Like, Agree
  <2> QED BY <2>3 DEF g
<1> QED BY <1>1, <1>2, <1>3, <1>4, <1>5, <1>6 DEF Like

(* Two such steps are one.                                                 *)
LEMMA LikeTwice ==
  ASSUME NEW m, StackOK(m), NEW g, Like(m, g), NEW h, Like(g, h)
  PROVE  Like(m, h)
BY DEF Like, StackOK

(* The ceilings stay on the stack if the new ones are.                     *)
LEMMA CeiledOn ==
  ASSUME NEW m, StackOK(m), Ceiled(m), NEW g, StackOK(g), m.last <= g.last,
         \A i \in 1..Len(g.cis) : (i \in 1..Len(m.cis) /\ g.cis[i].top = m.cis[i].top)
                                  \/ (g.cis[i].top \in Nat /\ g.cis[i].top <= Room(g))
  PROVE  Ceiled(g)
<1>1. m.last \in Nat /\ g.last \in Nat /\ Room(m) <= Room(g) /\ Room(m) \in Int /\ Room(g) \in Int
  BY ExtraNat DEF StackOK, Room
<1>2. ASSUME NEW i \in 1..Len(g.cis) PROVE g.cis[i].top \in Nat /\ g.cis[i].top <= Room(g)
  BY <1>1, <1>2 DEF Ceiled
<1> QED BY <1>2 DEF Ceiled

(* In the ways the helpers change the list of CallInfos.                   *)
LEMMA CeiledSteps ==
  ASSUME NEW m, StackOK(m), Ceiled(m), IsSeq(m.cis), NEW g, StackOK(g), m.last <= g.last
  PROVE  /\ g.cis = m.cis => Ceiled(g)
         /\ \A ci : g.cis = Append(m.cis, ci) /\ ci.top \in Nat /\ ci.top <= Room(g) => Ceiled(g)
         /\ \A ci : /\ Len(m.cis) >= 1 /\ g.cis = Append(Front(m.cis), ci)
                    /\ ci.top = m.cis[Len(m.cis)].top \/ (ci.top \in Nat /\ ci.top <= Room(g))
                    => Ceiled(g)
         /\ \A k \in 0..Len(m.cis) : g.cis = SubSeq(m.cis, 1, k) => Ceiled(g)
<1> DEFINE cs == m.cis
<1>0. Len(cs) \in Nat
  BY SeqFacts
<1>1. ASSUME g.cis = cs PROVE Ceiled(g)
  <2>1. \A i \in 1..Len(g.cis) : i \in 1..Len(m.cis) /\ g.cis[i].top = m.cis[i].top
    BY <1>1
  <2> QED BY <2>1, CeiledOn
<1>2. ASSUME NEW ci, g.cis = Append(cs, ci), ci.top \in Nat, ci.top <= Room(g) PROVE Ceiled(g)
  <2>1. Longer(cs, g.cis, ci)
    BY <1>2, AppendLonger
  <2>2. \A i \in 1..Len(g.cis) : i \in 1..Len(cs) \/ i = Len(cs) + 1
    BY <1>0, <2>1 DEF Longer
  <2>3. \A i \in 1..Len(g.cis) : (i \in 1..Len(m.cis) /\ g.cis[i].top = m.cis[i].top)
                                  \/ (g.cis[i].top \in Nat /\ g.cis[i].top <= Room(g))
    BY <1>2, <2>1, <2>2 DEF Longer
  <2> QED BY <2>3, CeiledOn
<1>3. ASSUME NEW ci, Len(cs) >= 1, g.cis = Append(Front(cs), ci),
             ci.top = cs[Len(cs)].top \/ (ci.top \in Nat /\ ci.top <= Room(g))
      PROVE  Ceiled(g)
  <2>1. IsSeq(cs) /\ Len(cs) >= 1 /\ g.cis = Append(Front(cs), ci)
    BY <1>3
  <2> HIDE DEF cs
  <2>6. /\ Len(g.cis) = Len(cs) /\ g.cis[Len(cs)] = ci
        /\ \A j \in 1..(Len(cs) - 1) : g.cis[j] = cs[j]
    BY <2>1, NowSeq
  <2>2. \A i \in 1..Len(g.cis) : i \in 1..Len(cs) /\ (i \in 1..(Len(cs) - 1) \/ i = Len(cs))
    BY <1>0, <2>6
  <2>3. \A i \in 1..Len(g.cis) : (i \in 1..Len(m.cis) /\ g.cis[i].top = m.cis[i].top)
                                  \/ (g.cis[i].top \in Nat /\ g.cis[i].top <= Room(g))
    BY <1>3, <2>6, <2>2 DEF cs
  <2> QED BY <2>3, CeiledOn
<1>4. ASSUME NEW k \in 0..Len(cs), g.cis = SubSeq(cs, 1, k) PROVE Ceiled(g)
  <2>1. Len(g.cis) = k /\ \A i \in 1..k : g.cis[i] = cs[i]
    BY <1>4, Beginning
  <2>2. \A i \in 1..k : i \in 1..Len(cs)
    BY <1>0
  <2>3. \A i \in 1..Len(g.cis) : i \in 1..Len(m.cis) /\ g.cis[i].top = m.cis[i].top
    BY <2>1, <2>2
  <2> QED BY <2>3, CeiledOn
<1> QED BY <1>1, <1>2, <1>3, <1>4

-----------------------------------------------------------------------------
(* How a step keeps it.                                                    *)

(* All that is known before a step.                                        *)
Knows ==
  /\ StackOK(stk) /\ IsSeq(stk.cis) /\ IsSeq(lua) /\ Len(lua) \in Nat \ {0} /\ Len(stk.cis) = Len(lua)
  /\ Frame = lua[Len(lua)] /\ Last(stk.cis) = stk.cis[Len(lua)] /\ Shape(Last(stk.cis), Frame)
  /\ IsSeq(nat) /\ Len(nat) \in Nat \ {0} /\ Last(nat) = nat[Len(nat)] /\ prog \in Programs
  /\ Ceiled(stk) /\ FramesFine(lua) /\ OpenFine(Frame) /\ Unprepped(Last(stk.cis), Frame)
  /\ Last(nat).kind = "body" \/ rep => Raisen(stk.top, Last(stk.cis), Frame, prog.ops)
  /\ "dots" \in prog.ops => NoLoop(nat) /\ "tfor" \notin prog.ops /\ "table" \notin prog.ops
  /\ \A fn \in prog.fns : fn \in DOMAIN FnInfo /\ ~FnInfo[fn].vararg

(* What the inductive invariant gives each of the steps below.             *)
LEMMA PlainKnows ==
  ASSUME PlainPrograms, LoopInv, DataInv, PlainInv
  PROVE  Knows /\ StackHolds
<1>1. StackHolds
  BY PlainHolds DEF DataInv
<1>2. /\ StackOK(stk) /\ IsSeq(lua) /\ Len(lua) \in Nat \ {0} /\ IsSeq(stk.cis) /\ Len(stk.cis) = Len(lua)
      /\ IsSeq(nat) /\ Len(nat) \in Nat \ {0} /\ Last(nat) = nat[Len(nat)]
      /\ Frame = lua[Len(lua)] /\ Last(stk.cis) = stk.cis[Len(lua)]
      /\ FrameOK(stk, Last(stk.cis), Frame) /\ prog \in Programs
  BY <1>1, Anywhere
<1>3. /\ Ceiled(stk) /\ FramesFine(lua)
      /\ TopFine(stk.top, Last(stk.cis), Frame, prog.ops, Last(nat).kind = "body" \/ rep)
      /\ "dots" \in prog.ops => NoLoop(nat)
  BY <1>2 DEF PlainInv, PlainOK
<1>4. OpenFine(Frame)
  <2>1. Len(lua) \in 1..Len(lua)
    BY <1>2
  <2> QED BY <2>1, <1>2, <1>3 DEF FramesFine
<1>5. \A fn \in prog.fns : fn \in DOMAIN FnInfo /\ ~FnInfo[fn].vararg
  BY <1>2, ProgramFns DEF PlainPrograms
<1>6. "dots" \in prog.ops => "tfor" \notin prog.ops /\ "table" \notin prog.ops
  BY <1>2 DEF PlainPrograms
<1>7. Unprepped(Last(stk.cis), Frame)
      /\ (Last(nat).kind = "body" \/ rep => Raisen(stk.top, Last(stk.cis), Frame, prog.ops))
  BY <1>3 DEF TopFine
<1> QED BY <1>1, <1>2, <1>3, <1>4, <1>5, <1>6, <1>7 DEF Knows, FrameOK

(* What has to be shown of the next state.                                 *)
LEMMA PlainThen ==
  ASSUME Ceiled(stk'), FramesFine(lua'), NEW c, c = stk'.cis[Len(lua')], NEW f, f = lua'[Len(lua')],
         Unprepped(c, f), nat'[Len(nat')].kind = "body" \/ rep' => Raisen(stk'.top, c, f, prog'.ops),
         "dots" \in prog'.ops => NoLoop(nat')
  PROVE  PlainInv'
BY DEF PlainInv, PlainOK, TopFine

(* The topmost frame is another one.                                       *)
LEMMA FramesNow ==
  ASSUME NEW s, IsSeq(s), Len(s) >= 1, FramesFine(s), NEW e, OpenFine(e)
  PROVE  /\ FramesFine(Append(Front(s), e)) /\ Len(Append(Front(s), e)) = Len(s)
         /\ Append(Front(s), e)[Len(s)] = e
<1> DEFINE t == Append(Front(s), e)
           k == Len(s)
<1>1. Len(t) = k /\ k \in Nat /\ t[k] = e /\ \A j \in 1..(k - 1) : t[j] = s[j]
  BY NowSeq
<1> HIDE DEF t
<1>2. ASSUME NEW j \in 1..Len(t) PROVE OpenFine(t[j])
  <2>1. j = k \/ (j \in 1..(k - 1) /\ j \in 1..Len(s))
    BY <1>1
  <2> QED BY <2>1, <1>1 DEF FramesFine
<1>3. FramesFine(t)
  BY <1>2 DEF FramesFine
<1> QED BY <1>1, <1>3 DEF t

(* A step of the function on top.                                          *)
LEMMA PlainKeeps ==
  ASSUME Knows, prog' = prog,
         NEW f1, lua' = Now(f1) \/ (lua' = lua /\ f1 = Frame), OpenFine(f1),
         NEW c1, (stk'.cis = stk.cis /\ c1 = Last(stk.cis)) \/ stk'.cis = Append(Front(stk.cis), c1),
         StackOK(stk'), stk.last <= stk'.last,
         c1.top = Last(stk.cis).top \/ (c1.top \in Nat /\ c1.top <= Room(stk')), Unprepped(c1, f1),
         nat'[Len(nat')].kind = "body" \/ rep' => Raisen(stk'.top, c1, f1, prog.ops),
         "dots" \in prog.ops => NoLoop(nat')
  PROVE  PlainInv'
<1> DEFINE g == stk'
           fs == lua'
           K == Len(lua)
<1>1. /\ StackOK(stk) /\ IsSeq(stk.cis) /\ IsSeq(lua) /\ K \in Nat \ {0} /\ Len(stk.cis) = K
      /\ Frame = lua[K] /\ Last(stk.cis) = stk.cis[K] /\ Ceiled(stk) /\ FramesFine(lua)
  BY DEF Knows
<1>2. FramesFine(fs) /\ Len(fs) = K /\ fs[K] = f1
  <2>1. Len(lua) >= 1
    BY <1>1
  <2>2. CASE lua' = Now(f1)
    <3>1. fs = Append(Front(lua), f1)
      BY <2>2 DEF Now
    <3> HIDE DEF fs
    <3> QED BY <3>1, <2>1, <1>1, FramesNow
  <2>3. CASE lua' = lua /\ f1 = Frame
    BY <2>3, <1>1
  <2> QED BY <2>2, <2>3
<1>3. Ceiled(g) /\ g.cis[K] = c1
  <2> DEFINE cs == stk.cis
  <2>1. IsSeq(cs) /\ Len(cs) >= 1 /\ Len(cs) = K /\ Last(stk.cis) = cs[K]
    BY <1>1
  <2>2. StackOK(g) /\ stk.last <= g.last
    OBVIOUS
  <2>3. CASE g.cis = cs /\ c1 = cs[K]
    <3> HIDE DEF g
    <3> QED BY <2>3, <1>1, <2>2, CeiledSteps
  <2>4. CASE g.cis = Append(Front(cs), c1)
    <3>1. c1.top = stk.cis[Len(stk.cis)].top \/ (c1.top \in Nat /\ c1.top <= Room(g))
      BY <1>1
    <3> HIDE DEF g
    <3>2. Ceiled(g)
      BY <3>1, <2>1, <2>2, <2>4, <1>1, CeiledSteps
    <3> HIDE DEF cs
    <3>3. Append(Front(cs), c1)[Len(cs)] = c1
      BY <2>1, NowSeq
    <3> QED BY <3>2, <3>3, <2>1, <2>4
  <2>5. (g.cis = cs /\ c1 = cs[K]) \/ g.cis = Append(Front(cs), c1)
    BY <2>1
  <2> QED BY <2>3, <2>4, <2>5
<1>4. Unprepped(c1, f1) /\ (nat'[Len(nat')].kind = "body" \/ rep' => Raisen(stk'.top, c1, f1, prog'.ops))
      /\ ("dots" \in prog'.ops => NoLoop(nat'))
  OBVIOUS
<1>5. Ceiled(stk') /\ FramesFine(lua') /\ c1 = stk'.cis[Len(lua')] /\ f1 = lua'[Len(lua')]
  BY <1>2, <1>3
<1> HIDE DEF g, fs, K
<1> QED BY <1>4, <1>5, PlainThen

(* Where nothing is asked.                                                 *)
LEMMA NothingAsked ==
  ASSUME NEW f
  PROVE  /\ f.ready => \A c : Unprepped(c, f)
         /\ f.open = -1 \/ ~IsLua(f.fn) \/ f.ret => (f.open \in Int => OpenFine(f))
         /\ f.closed \/ f.open # -1 => \A t, c, ops : Raisen(t, c, f, ops)
         /\ ~FnInfo[f.fn].vararg => \A t, c, ops : Raisen(t, c, f, ops)
BY DEF Unprepped, OpenFine, Raisen

(* The top that was high enough is so when it is higher.                   *)
LEMMA RaisenUp ==
  ASSUME NEW c, NEW f, Shape(c, f), NEW ops, NEW t \in Nat, Raisen(t, c, f, ops), NEW t1 \in Nat, t <= t1,
         NEW f1, f1.fn = f.fn, f1.ready = f.ready, f1.closed = f.closed, f1.open = -1 => f.open = -1
  PROVE  Raisen(t1, c, f1, ops)
<1>1. c.func \in Nat /\ FnInfo[f.fn].size \in Nat
  <2>1. c.func \in Nat /\ f.fn \in DOMAIN FnInfo
    BY ShapeFacts
  <2> QED BY <2>1, FnFacts
<1> SUFFICES ASSUME f1.ready /\ ~f1.closed /\ f1.open = -1 /\ FnInfo[f1.fn].vararg /\ "dots" \in ops
             PROVE  c.func + 1 + FnInfo[f1.fn].size <= t1
  BY DEF Raisen
<1>2. c.func + 1 + FnInfo[f.fn].size <= t
  BY DEF Raisen
<1> QED BY <1>1, <1>2

(* So is the ceiling.                                                      *)
LEMMA RaisenClaimed ==
  ASSUME NEW c, NEW f, Shape(c, f), NEW ops
  PROVE  Raisen(c.top, c, f, ops)
<1>1. f.fn \in DOMAIN FnInfo /\ (IsLua(f.fn) => c.func + 1 + FnInfo[f.fn].size <= c.top)
  BY DEF Shape
<1> QED BY <1>1, FnFacts DEF Raisen

(* The function on top goes on with other registers.                       *)
LEMMA PlainGoesOn ==
  ASSUME Knows, prog' = prog, nat' = nat, rep' = rep, Like(stk, stk'),
         NEW f1, lua' = Now(f1), f1.ready, OpenFine(f1),
         Last(nat).kind = "body" \/ rep => Raisen(stk'.top, Last(stk.cis), f1, prog.ops)
  PROVE  PlainInv'
<1> DEFINE c == Last(stk.cis)
<1>1. StackOK(stk') /\ stk.last <= stk'.last /\ stk'.cis = stk.cis /\ c.top = Last(stk.cis).top
  BY DEF Like
<1>2. Unprepped(c, f1)
  BY NothingAsked
<1>3. nat'[Len(nat')].kind = "body" \/ rep' => Raisen(stk'.top, c, f1, prog.ops)
  BY DEF Knows
<1>4. "dots" \in prog.ops => NoLoop(nat')
  BY DEF Knows
<1>5. (stk'.cis = stk.cis /\ c = Last(stk.cis)) /\ (c.top = Last(stk.cis).top)
  BY <1>1
<1> HIDE DEF c
<1> QED BY <1>1, <1>2, <1>3, <1>4, <1>5, PlainKeeps

-----------------------------------------------------------------------------
(* The instructions that change the registers and no more.                 *)

(* f with other registers, and perhaps another open list.                  *)
LEMMA Refilled ==
  ASSUME NEW f, DOMAIN f = {"fn", "regs", "extra", "open", "ready", "closed", "ret", "want"},
         NEW r, NEW o
  PROVE  /\ LET h == [f EXCEPT !.regs = r]
            IN h.fn = f.fn /\ h.ready = f.ready /\ h.closed = f.closed /\ h.open = f.open /\ h.ret = f.ret /\ h.regs = r
         /\ LET h == [f EXCEPT !.regs = r, !.open = o]
            IN h.fn = f.fn /\ h.ready = f.ready /\ h.closed = f.closed /\ h.open = o /\ h.ret = f.ret /\ h.regs = r
OBVIOUS

(* Where an instruction is executed, the function may ask for "...".       *)
LEMMA BodyPlain ==
  ASSUME Knows, LoopInv, DataInv, StackHolds, NEW op, Executes(op)
  PROVE  /\ Frame.ready /\ ~Frame.closed /\ Frame.open = -1 /\ stk.top \in Nat /\ op \in prog.ops
         /\ DOMAIN Frame = {"fn", "regs", "extra", "open", "ready", "closed", "ret", "want"}
         /\ Raisen(stk.top, Last(stk.cis), Frame, prog.ops) /\ Shape(Last(stk.cis), Frame)
         /\ Here \in Nat /\ StackOK(stk)
<1>1. Frame.ready /\ ~Frame.closed /\ Frame.open = -1 /\ StackOK(stk) /\ op \in prog.ops /\ Numbers
  BY Executing
<1>2. Last(nat).kind = "body"
  BY DEF Executes, Runs
<1>3. /\ DOMAIN Frame = {"fn", "regs", "extra", "open", "ready", "closed", "ret", "want"}
      /\ Raisen(stk.top, Last(stk.cis), Frame, prog.ops) /\ Shape(Last(stk.cis), Frame)
  BY <1>2 DEF Knows, Shape
<1>4. stk.top \in Nat /\ Here \in Nat
  BY <1>1 DEF StackOK, Numbers
<1> QED BY <1>1, <1>3, <1>4

(* Registers are written, and the top does not sink.                       *)
LEMMA WritesPlain ==
  ASSUME Knows, LoopInv, DataInv, StackHolds, NEW op, Executes(op), NEW r, lua' = Now([Frame EXCEPT !.regs = r]),
         Like(stk, stk'), stk.top <= stk'.top, nat' = nat, rep' = rep, prog' = prog
  PROVE  PlainInv'
<1> DEFINE f1 == [Frame EXCEPT !.regs = r]
<1>1. /\ Frame.ready /\ ~Frame.closed /\ Frame.open = -1 /\ stk.top \in Nat
      /\ DOMAIN Frame = {"fn", "regs", "extra", "open", "ready", "closed", "ret", "want"}
      /\ Raisen(stk.top, Last(stk.cis), Frame, prog.ops) /\ Shape(Last(stk.cis), Frame)
  BY BodyPlain
<1>2. f1.fn = Frame.fn /\ f1.ready = Frame.ready /\ f1.closed = Frame.closed /\ f1.open = Frame.open
  BY <1>1, Refilled
<1>3. stk'.top \in Nat
  BY DEF Like, StackOK
<1> HIDE DEF f1
<1>4. Raisen(stk'.top, Last(stk.cis), f1, prog.ops)
  BY <1>1, <1>2, <1>3, RaisenUp
<1>5. f1.ready /\ OpenFine(f1)
  BY <1>1, <1>2, NothingAsked
<1>6. lua' = Now(f1)
  BY DEF f1
<1> QED BY <1>4, <1>5, <1>6, PlainGoesOn

(* A load leaves every ceiling where it is.                                *)
LEMMA LoadPlain ==
  ASSUME Knows, LoopInv, DataInv, StackHolds, Load
  PROVE  PlainInv'
<1>1. /\ Executes("load") /\ stk' = Pushed(Tokens(1)) /\ lua' = Now([Frame EXCEPT !.regs = @ \o Tokens(1)])
      /\ nat' = nat /\ rep' = rep /\ prog' = prog
  BY DEF Load, Holding
<1>2. StackOK(stk) /\ stk.top \in Nat
  BY <1>1, BodyPlain
<1>3. Like(stk, stk') /\ stk'.top = stk.top
  BY <1>1, <1>2, LikeSteps DEF Pushed
<1>4. stk.top <= stk'.top
  BY <1>2, <1>3
<1> QED BY <1>1, <1>3, <1>4, WritesPlain

(* So does a new table; the top ends above its registers.                  *)
LEMMA NewTablePlain ==
  ASSUME Knows, LoopInv, DataInv, StackHolds, NewTable
  PROVE  PlainInv'
<1> DEFINE p == Pushed(Tokens(1))
           t == Max({stk.top, Here + 1})
           m == Topped(p, t)
<1>1. /\ Executes("table") /\ stk' \in {m, Collected(m)} /\ lua' = Now([Frame EXCEPT !.regs = @ \o Tokens(1)])
      /\ nat' = nat /\ rep' = rep /\ prog' = prog
  BY DEF NewTable, Holding
<1>2. StackOK(stk) /\ stk.top \in Nat /\ Here \in Nat
  BY <1>1, BodyPlain
<1>3. Like(stk, p) /\ StackOK(p)
  BY <1>2, LikeSteps DEF Pushed, Like
<1> HIDE DEF p
<1>4. t \in Nat /\ stk.top <= t
  <2> DEFINE a == stk.top
             b == Here + 1
  <2>1. a \in Nat /\ b \in Nat
    BY <1>2
  <2> HIDE DEF a, b
  <2>2. Max({a, b}) \in Nat /\ a <= Max({a, b})
    BY <2>1, MaxOfTwo
  <2> QED BY <2>2 DEF a, b
<1> HIDE DEF t
<1>5. Like(p, m) /\ m.top = t /\ StackOK(m)
  BY <1>3, <1>4, LikeSteps DEF Like
<1> HIDE DEF m
<1>6. Like(stk, m)
  BY <1>2, <1>3, <1>5, LikeTwice
<1>7. Like(m, Collected(m)) /\ Collected(m).top = m.top
  BY <1>5, LikeSteps
<1>8. Like(stk, Collected(m))
  BY <1>2, <1>6, <1>7, LikeTwice
<1>9. Like(stk, stk') /\ stk.top <= stk'.top
  BY <1>1, <1>4, <1>5, <1>6, <1>7, <1>8
<1> QED BY <1>1, <1>9, WritesPlain

(* So does "...": it writes at the registers and moves no ceiling.         *)
LEMMA VarargPlain ==
  ASSUME Knows, LoopInv, DataInv, StackHolds, NEW n \in Counts, Vararg(n)
  PROVE  PlainInv'
<1>1. /\ Executes("vararg") /\ stk' \in GetVarargs(stk, Here, n)
      /\ lua' = Now([Frame EXCEPT !.regs = @ \o Adjusted(Frame.extra, n)])
      /\ nat' = nat /\ rep' = rep /\ prog' = prog
  BY DEF Vararg, Holding
<1>2. StackOK(stk) /\ stk.top \in Nat
  BY <1>1, BodyPlain
<1>3. n # MULTRET
  BY CallsAssumption, ExtraNat DEF MULTRET
<1>4. stk' = Put(stk, Here, Adjusted(Extras(stk), n))
  BY <1>1, <1>3 DEF GetVarargs
<1>5. Like(stk, stk') /\ stk'.top = stk.top
  BY <1>2, <1>4, LikeSteps
<1>6. stk.top <= stk'.top
  BY <1>2, <1>5
<1> QED BY <1>1, <1>5, <1>6, WritesPlain

(* "..." leaves a list open.                                               *)
LEMMA OpenVarargPlain ==
  ASSUME Knows, LoopInv, DataInv, StackHolds, NEW fn \in prog.fns, OpenVararg(fn)
  PROVE  PlainInv'
<1> DEFINE m == Pushed(<<fn>>)
           x == Last(m.cis).nextra
           r0 == Frame.regs \o <<fn>>
           r == r0 \o Frame.extra
           f1 == [Frame EXCEPT !.regs = r, !.open = Live]
<1>1. /\ Executes("dots") /\ stk' \in GetVarargs(m, Here + 1, MULTRET) /\ lua' = Now(f1)
      /\ nat' = nat /\ rep' = rep /\ prog' = prog
  BY DEF OpenVararg
<1>2. /\ StackOK(stk) /\ stk.top \in Nat /\ Here \in Nat /\ Frame.ready /\ Shape(Last(stk.cis), Frame)
      /\ DOMAIN Frame = {"fn", "regs", "extra", "open", "ready", "closed", "ret", "want"}
  BY <1>1, BodyPlain
<1>3. Like(stk, m) /\ StackOK(m) /\ m.cis = stk.cis
  BY <1>2, LikeSteps DEF Pushed, Like
<1> HIDE DEF m
<1>4. x \in Nat
  BY <1>2, <1>3, ShapeFacts
<1>5. PICK g \in CheckStackGC(m, x) : stk' = Put(Topped(g, Here + 1 + x), Here + 1, Extras(g))
  BY <1>1 DEF GetVarargs
<1>6. Like(stk, stk')
  <2> DEFINE t == Here + 1 + x
             h == Topped(g, t)
  <2>1. t \in Nat /\ x \in Int
    BY <1>2, <1>4
  <2> HIDE DEF t, x
  <2>2. Like(m, g) /\ StackOK(g)
    BY <1>3, <1>5, <2>1, LikeSteps DEF Like
  <2>3. Like(g, h) /\ StackOK(h)
    BY <2>1, <2>2, LikeSteps DEF Like
  <2>4. stk' = Put(h, Here + 1, Extras(g))
    BY <1>5 DEF t
  <2> HIDE DEF h
  <2>5. Like(h, stk')
    BY <2>3, <2>4, LikeSteps
  <2>6. Like(stk, g)
    BY <1>2, <1>3, <2>2, LikeTwice
  <2>7. Like(stk, h)
    BY <1>2, <2>3, <2>6, LikeTwice
  <2> QED BY <1>2, <2>5, <2>7, LikeTwice
<1>7. /\ f1.fn = Frame.fn /\ f1.ready = Frame.ready /\ f1.open = Live /\ f1.regs = r
  BY <1>2, Refilled
<1>8. IsSeq(Frame.regs) /\ Live = Len(Frame.regs) /\ Live \in Nat /\ IsSeq(Frame.extra)
  BY <1>2, ShapeFacts DEF Live, Shape
<1>9. r[Live + 1] = fn
  <2> DEFINE s == Frame.regs
             e == Frame.extra
  <2>1. IsSeq(r0) /\ Len(r0) = Len(s) + 1 /\ r0[Len(s) + 1] = fn
    BY <1>8, OneMore
  <2> HIDE DEF r0
  <2>2. \A i \in 1..Len(r0) : (r0 \o e)[i] = r0[i]
    BY <1>8, <2>1, Joined
  <2>3. Live + 1 \in 1..Len(r0)
    BY <1>8, <2>1
  <2>4. (r0 \o e)[Live + 1] = r0[Live + 1]
    BY <2>2, <2>3
  <2> QED BY <1>8, <2>1, <2>4
<1>10. ~FnInfo[fn].vararg
  BY DEF Knows
<1> HIDE DEF f1, r
<1>11. OpenFine(f1) /\ f1.open # -1 /\ f1.ready
  BY <1>2, <1>7, <1>8, <1>9, <1>10 DEF OpenFine
<1>12. Raisen(stk'.top, Last(stk.cis), f1, prog.ops)
  BY <1>11, NothingAsked
<1> QED BY <1>1, <1>6, <1>11, <1>12, PlainGoesOn

(* The table takes the list, and the top stays behind it.                  *)
LEMMA SetListPlain ==
  ASSUME Knows, LoopInv, DataInv, StackHolds, SetList
  PROVE  PlainInv'
<1> DEFINE r == SubSeq(Frame.regs, 1, Frame.open + 1)
           o == -1
           f1 == [Frame EXCEPT !.regs = r, !.open = o]
<1>1. /\ "table" \in prog.ops /\ Frame.open >= 0 /\ lua' = Now(f1) /\ stk' = stk /\ nat' = nat
      /\ rep' = rep /\ prog' = prog
  BY DEF SetList, Consumes
<1>2. Shape(Last(stk.cis), Frame) /\ StackOK(stk) /\ "dots" \notin prog.ops
  BY <1>1 DEF Knows
<1>3. DOMAIN Frame = {"fn", "regs", "extra", "open", "ready", "closed", "ret", "want"} /\ Frame.ready
  BY <1>1, <1>2 DEF Shape
<1>4. f1.open = -1 /\ f1.ready = Frame.ready
  BY <1>3, Refilled
<1> HIDE DEF r, f1
<1>5. f1.ready /\ OpenFine(f1)
  BY <1>3, <1>4, NothingAsked
<1>6. Raisen(stk'.top, Last(stk.cis), f1, prog.ops)
  BY <1>2 DEF Raisen
<1>7. Like(stk, stk')
  BY <1>1, <1>2, LikeSteps
<1> QED BY <1>1, <1>5, <1>6, <1>7, PlainGoesOn

-----------------------------------------------------------------------------
(* The helpers whose callee has come back.                                 *)

(* No activation that is taken away or added is a generic loop's.          *)
LEMMA LoopsLess ==
  ASSUME NEW n, IsSeq(n), NoLoop(n)
  PROVE  /\ \A k \in 0..Len(n) : NoLoop(SubSeq(n, 1, k))
         /\ Len(n) >= 1 => NoLoop(Front(n))
         /\ \A x : x.kind # "tfor" => NoLoop(Append(n, x)) /\ \A t : Above(n, x, t) => NoLoop(t)
<1>0. Len(n) \in Nat
  BY SeqFacts
<1>1. ASSUME NEW k \in 0..Len(n) PROVE NoLoop(SubSeq(n, 1, k))
  <2> DEFINE s == SubSeq(n, 1, k)
  <2>1. Len(s) = k /\ \A i \in 1..k : s[i] = n[i] /\ i \in 1..Len(n)
    BY <1>0, Beginning
  <2> HIDE DEF s
  <2>2. NoLoop(s)
    BY <2>1 DEF NoLoop
  <2> QED BY <2>2 DEF s
<1>2. ASSUME Len(n) >= 1 PROVE NoLoop(Front(n))
  <2> DEFINE s == Front(n)
  <2>1. Shorter(n, s)
    BY <1>2, FrontShorter
  <2> HIDE DEF s
  <2>2. \A i \in 1..Len(s) : s[i] = n[i] /\ i \in 1..Len(n)
    BY <1>0, <2>1 DEF Shorter
  <2>3. NoLoop(s)
    BY <2>2 DEF NoLoop
  <2> QED BY <2>3 DEF s
<1>3. ASSUME NEW x, x.kind # "tfor" PROVE NoLoop(Append(n, x))
  <2> DEFINE s == Append(n, x)
  <2>1. Longer(n, s, x)
    BY AppendLonger
  <2> HIDE DEF s
  <2>2. \A i \in 1..Len(s) : i \in 1..Len(n) \/ i = Len(n) + 1
    BY <1>0, <2>1 DEF Longer
  <2>3. NoLoop(s)
    BY <1>3, <2>1, <2>2 DEF NoLoop, Longer
  <2> QED BY <2>3 DEF s
<1>4. ASSUME NEW x, x.kind # "tfor", NEW t, Above(n, x, t) PROVE NoLoop(t)
  <2>1. /\ IsSeq(t) /\ Len(t) > Len(n) /\ t[Len(n) + 1] = x
        /\ \A i \in 1..Len(n) : t[i] = n[i]
        /\ \A i \in (Len(n) + 2)..Len(t) : t[i].kind \notin Server
    BY <1>4 DEF Above
  <2>2. Len(t) \in Nat /\ "tfor" \in Server
    BY <2>1, SeqFacts DEF Server, Helper
  <2>3. \A i \in 1..Len(t) : i \in 1..Len(n) \/ i = Len(n) + 1 \/ i \in (Len(n) + 2)..Len(t)
    BY <1>0, <2>1, <2>2
  <2>4. \A i \in 1..Len(n) : n[i].kind # "tfor"
    BY DEF NoLoop
  <2>5. ASSUME NEW i \in 1..Len(t) PROVE t[i].kind # "tfor"
    <3>1. CASE i \in 1..Len(n)
      BY <3>1, <2>1, <2>4
    <3>2. CASE i = Len(n) + 1
      BY <3>2, <2>1, <1>4
    <3>3. CASE i \in (Len(n) + 2)..Len(t)
      BY <3>3, <2>1, <2>2
    <3> QED BY <2>3, <3>1, <3>2, <3>3
  <2> QED BY <2>5 DEF NoLoop
<1> QED BY <1>1, <1>2, <1>3, <1>4

(* A helper hands the top back to the function that called it.             *)
LEMMA HelperPlain ==
  ASSUME Knows, LoopInv, DataInv, StackHolds, NEW kind \in Helper, Waiting(kind), Resumes,
         NEW c1, (stk'.cis = stk.cis /\ c1 = Last(stk.cis)) \/ stk'.cis = Append(Front(stk.cis), c1),
         StackOK(stk'), stk.last <= stk'.last,
         c1.top = Last(stk.cis).top \/ (c1.top \in Nat /\ c1.top <= Room(stk')),
         kind \notin {"calls", "pcall"} => Raisen(stk'.top, c1, Frame, prog.ops)
  PROVE  PlainInv'
<1>1. PICK link : Helping(kind, link)
  BY HelperBack
<1>2. Frame.ready /\ rep = FALSE
      /\ Front(nat)[Len(Front(nat))].kind = (IF kind \in {"calls", "pcall"} THEN "cfn" ELSE "body")
  BY <1>1 DEF Helping
<1>3. lua' = lua /\ nat' = Front(nat) /\ rep' = rep /\ prog' = prog
  BY DEF Resumes
<1>4. OpenFine(Frame) /\ IsSeq(nat) /\ Len(nat) >= 1 /\ ("dots" \in prog.ops => NoLoop(nat))
  BY DEF Knows
<1>5. Unprepped(c1, Frame)
  BY <1>2, NothingAsked
<1>6. nat'[Len(nat')].kind = "body" \/ rep' => Raisen(stk'.top, c1, Frame, prog.ops)
  BY <1>2, <1>3
<1>7. "dots" \in prog.ops => NoLoop(nat')
  BY <1>3, <1>4, LoopsLess
<1>8. lua' = lua /\ Frame = Frame
  BY <1>3
<1> QED BY <1>3, <1>4, <1>5, <1>6, <1>7, <1>8, PlainKeeps

(* What the helper knows of it.                                            *)
LEMMA HelperDeals ==
  ASSUME Knows, LoopInv, DataInv, StackHolds, NEW kind \in Helper, Waiting(kind)
  PROVE  /\ StackOK(stk) /\ stk.last \in Nat /\ stk.top \in Nat /\ Last(stk.cis).top \in Nat
         /\ Raisen(Last(stk.cis).top, Last(stk.cis), Frame, prog.ops)
         /\ DealOK(stk, Last(nat), Len(lua), Last(stk.cis), Frame) /\ Last(nat).kind = kind
         /\ MidOK(stk, Last(nat), Last(stk.cis), Frame, rax) /\ Frame.open \in Int
         /\ Frame.fn \in DOMAIN FnInfo
<1>1. PICK link : Helping(kind, link)
  BY HelperBack
<1>2. /\ DealOK(stk, Last(nat), Len(lua), Last(stk.cis), Frame) /\ Last(nat).kind = kind
      /\ MidOK(stk, Last(nat), Last(stk.cis), Frame, rax)
  BY <1>1 DEF Helping
<1>3. Shape(Last(stk.cis), Frame) /\ StackOK(stk)
  BY DEF Knows
<1>4. Raisen(Last(stk.cis).top, Last(stk.cis), Frame, prog.ops)
  BY <1>3, RaisenClaimed
<1>5. Last(stk.cis).top \in Nat /\ Frame.open \in Int /\ Frame.fn \in DOMAIN FnInfo
  BY <1>3, ShapeFacts DEF Shape
<1> QED BY <1>2, <1>3, <1>4, <1>5 DEF StackOK

(* The top is claimed: the function is back where it was.                  *)
LEMMA ClaimedPlain ==
  ASSUME Knows, LoopInv, DataInv, StackHolds, NEW kind \in Helper, Waiting(kind), Resumes,
         NEW m, Like(stk, m), stk' = Claimed(m)
  PROVE  PlainInv'
<1> DEFINE c == Last(stk.cis)
           t == c.top
<1>1. /\ StackOK(stk) /\ t \in Nat /\ Raisen(t, c, Frame, prog.ops)
  BY HelperDeals
<1>2. stk' = Topped(m, t) /\ StackOK(m)
  BY DEF Claimed, Like
<1>3. Like(m, stk') /\ stk'.top = t
  <2> HIDE DEF t
  <2> QED BY <1>1, <1>2, LikeSteps
<1>4. Like(stk, stk')
  BY <1>1, <1>3, LikeTwice
<1>5. StackOK(stk') /\ stk'.cis = stk.cis /\ stk.last <= stk'.last
  BY <1>4 DEF Like
<1>6. Raisen(stk'.top, c, Frame, prog.ops)
  BY <1>1, <1>3
<1>7. c = Last(stk.cis) /\ c.top = Last(stk.cis).top
  OBVIOUS
<1> HIDE DEF t, c
<1> QED BY <1>5, <1>6, <1>7, HelperPlain

(* The top stays, or is what the helper has noted.                         *)
LEMMA LeftPlain ==
  ASSUME Knows, LoopInv, DataInv, StackHolds, NEW kind \in Helper, Waiting(kind), Resumes,
         Like(stk, stk'), Frame.open # -1 \/ Frame.closed \/ "dots" \notin prog.ops
  PROVE  PlainInv'
<1> DEFINE c == Last(stk.cis)
<1>1. StackOK(stk') /\ stk'.cis = stk.cis /\ stk.last <= stk'.last
  BY DEF Like
<1>2. Raisen(stk'.top, c, Frame, prog.ops)
  BY DEF Raisen
<1>3. c = Last(stk.cis) /\ c.top = Last(stk.cis).top
  OBVIOUS
<1> HIDE DEF c
<1> QED BY <1>1, <1>2, <1>3, HelperPlain

(* A slow call that returns.                                               *)
LEMMA SlowReturnsPlain ==
  ASSUME Knows, LoopInv, DataInv, StackHolds, SlowReturns
  PROVE  PlainInv'
<1> DEFINE kind == "slow"
<1>1. Waiting(kind) /\ Resumes /\ kind \in Helper
  BY DEF SlowReturns, ToBody, Resumes, Helper
<1>2. /\ StackOK(stk) /\ DealOK(stk, Last(nat), Len(lua), Last(stk.cis), Frame) /\ Last(nat).kind = "slow"
  BY <1>1, HelperDeals
<1>3. Like(stk, stk)
  BY <1>2, LikeSteps
<1> HIDE DEF kind
<1>4. CASE Last(nat).n = MULTRET
  <2>1. stk' = stk
    BY <1>4 DEF SlowReturns
  <2>2. Frame.open # -1
    BY <1>2, <1>4 DEF DealOK, MULTRET
  <2> QED BY <1>1, <1>3, <2>1, <2>2, LeftPlain
<1>5. CASE Last(nat).n # MULTRET
  <2>1. stk' = Claimed(stk)
    BY <1>5 DEF SlowReturns
  <2> QED BY <1>1, <1>3, <2>1, ClaimedPlain
<1> QED BY <1>4, <1>5

(* The iterator of a generic loop that returns.                            *)
LEMMA TForReturnsPlain ==
  ASSUME Knows, LoopInv, DataInv, StackHolds, TForReturns
  PROVE  PlainInv'
<1> DEFINE kind == "tfor"
<1>1. Waiting(kind) /\ Resumes /\ kind \in Helper /\ stk' = stk
  BY DEF TForReturns, ToBody, Resumes, Helper
<1>2. StackOK(stk) /\ Last(nat).kind = "tfor"
  BY <1>1, HelperDeals
<1>3. Like(stk, stk')
  BY <1>1, <1>2, LikeSteps
<1>4. "dots" \notin prog.ops
  <2>1. "dots" \in prog.ops => NoLoop(nat)
    BY DEF Knows
  <2>2. Last(nat) = nat[Len(nat)] /\ Len(nat) \in 1..Len(nat)
    BY DEF Knows
  <2> QED BY <1>2, <2>1, <2>2 DEF NoLoop
<1> HIDE DEF kind
<1> QED BY <1>1, <1>3, <1>4, LeftPlain

(* A close method that returns.                                            *)
LEMMA CloseReturnsPlain ==
  ASSUME Knows, LoopInv, DataInv, StackHolds, CloseReturns
  PROVE  PlainInv'
<1> DEFINE kind == "close"
           t == Last(nat).n
<1>1. Waiting(kind) /\ Resumes /\ kind \in Helper /\ stk' = Topped(stk, t)
  BY DEF CloseReturns, ToBody, Resumes, Helper
<1>2. StackOK(stk) /\ DealOK(stk, Last(nat), Len(lua), Last(stk.cis), Frame) /\ Last(nat).kind = "close"
  BY <1>1, HelperDeals
<1>3. Frame.closed /\ t \in Nat
  BY <1>2 DEF DealOK
<1> HIDE DEF kind, t
<1>4. Like(stk, stk')
  BY <1>1, <1>2, <1>3, LikeSteps
<1> QED BY <1>1, <1>3, <1>4, LeftPlain

(* A metamethod that returns.                                              *)
LEMMA MetaReturnsPlain ==
  ASSUME Knows, LoopInv, DataInv, StackHolds, MetaReturns
  PROVE  PlainInv'
<1> DEFINE kind == "meta"
           m == Copy(stk, stk.top - 1, 1, Base(stk) + Last(nat).a)
<1>1. Waiting(kind) /\ Resumes /\ kind \in Helper /\ stk' = Claimed(m)
  BY DEF MetaReturns, ToBody, Resumes, Helper
<1>2. StackOK(stk)
  BY <1>1, HelperDeals
<1>3. Like(stk, m)
  BY <1>2, LikeSteps DEF Copy
<1> HIDE DEF kind, m
<1> QED BY <1>1, <1>3, ClaimedPlain

(* A C function that resumes.                                              *)
LEMMA CResumesPlain ==
  ASSUME Knows, LoopInv, DataInv, StackHolds, CResumes
  PROVE  PlainInv'
<1> DEFINE c == Last(stk.cis)
           t == Max({c.top, stk.top})
           c1 == [c EXCEPT !.top = t]
<1>1. (\E kind \in {"calls", "pcall"} : Waiting(kind)) /\ Resumes /\ stk' = SetCI(stk, c1)
  BY DEF CResumes, ToBody, Resumes
<1>2. PICK kind \in {"calls", "pcall"} : Waiting(kind)
  BY <1>1
<1>3. kind \in Helper
  BY DEF Helper
<1>4. /\ StackOK(stk) /\ c.top \in Nat /\ stk.top \in Nat /\ Last(nat).kind = kind /\ stk.last \in Nat
      /\ MidOK(stk, Last(nat), c, Frame, rax)
  BY <1>2, <1>3, HelperDeals
<1>5. stk.top <= Room(stk) /\ c.top <= Room(stk)
  <2>1. stk.top <= Room(stk)
    BY <1>4 DEF MidOK
  <2>2. c = stk.cis[Len(lua)] /\ Len(lua) \in 1..Len(stk.cis) /\ Ceiled(stk)
    BY DEF Knows
  <2> HIDE DEF c
  <2>3. c.top <= Room(stk)
    BY <2>2 DEF Ceiled
  <2> QED BY <2>1, <2>3
<1>6. SameSlots(stk, stk') /\ stk'.cis = Append(Front(stk.cis), c1)
  BY <1>1, <1>4, SetCIDoes
<1>7. StackOK(stk') /\ stk'.last = stk.last /\ Room(stk') = Room(stk) /\ stk.last <= stk'.last
  BY <1>4, <1>6 DEF SameSlots, Room
<1>8. t \in Nat /\ t <= Room(stk)
  <2> DEFINE a == c.top
             b == stk.top
  <2>1. a \in Nat /\ b \in Nat /\ a <= Room(stk) /\ b <= Room(stk)
    BY <1>4, <1>5
  <2> HIDE DEF a, b
  <2>2. Max({a, b}) = IF a >= b THEN a ELSE b
    BY <2>1, MaxOfTwo
  <2>3. Max({a, b}) \in Nat /\ Max({a, b}) <= Room(stk)
    BY <2>1, <2>2
  <2> QED BY <2>3 DEF a, b
<1> HIDE DEF t
<1>9. c1.top = t
  <2>1. InfoOK(c)
    BY DEF Knows, Shape
  <2> QED BY <2>1 DEF InfoOK
<1> HIDE DEF c1
<1>10. c1.top \in Nat /\ c1.top <= Room(stk')
  BY <1>7, <1>8, <1>9
<1>11. ~(kind \notin {"calls", "pcall"})
  OBVIOUS
<1> QED BY <1>1, <1>2, <1>3, <1>6, <1>7, <1>10, <1>11, HelperPlain

-----------------------------------------------------------------------------
(* Results arrive.                                                         *)

(* The frame that gets results keeps its open list.                        *)
LEMMA DeliveredFine ==
  ASSUME NEW m, NEW x, NEW j, NEW c, NEW f, NEW n, NEW low, OneOK(m, x, j, c, f, n, low), OpenFine(f),
         NEW vs, IsSeq(vs), NEW f1, f1 = [f EXCEPT !.regs = f.want.pre \o Adjusted(vs, f.want.n) \o f.want.post]
  PROVE  /\ f1.fn = f.fn /\ f1.ready /\ f.ready /\ f1.closed = f.closed /\ f1.open = f.open
         /\ OpenFine(f1) /\ Shape(c, f)
<1> DEFINE pre == f.want.pre
           adj == Adjusted(vs, f.want.n)
           post == f.want.post
           r == pre \o adj \o post
           o == f.open + 1
<1>1. Shape(c, f) /\ DealOK(m, x, j, c, f) /\ WaitOK(m, x, c, f, n, low)
  BY DEF OneOK, FrameOK
<1>2. DOMAIN f = {"fn", "regs", "extra", "open", "ready", "closed", "ret", "want"} /\ f.open \in Int /\ f.open >= -1
  BY <1>1 DEF Shape
<1>3. /\ IsSeq(pre) /\ IsSeq(post) /\ f.want.n \in Int /\ f.want.n >= -1 /\ f.ready /\ ~f.ret
  BY <1>1 DEF DealOK
<1>4. f1.fn = f.fn /\ f1.ready = f.ready /\ f1.closed = f.closed /\ f1.open = f.open /\ f1.ret = f.ret /\ f1.regs = r
  BY <1>2, Refilled
<1>5. IsSeq(adj)
  BY <1>3, AdjustedSeq
<1>6. CASE f.open = -1 \/ ~IsLua(f.fn)
  <2>1. OpenFine(f1)
    BY <1>2, <1>4, <1>6 DEF OpenFine
  <2> QED BY <2>1, <1>1, <1>3, <1>4
<1>7. CASE f.open # -1 /\ IsLua(f.fn)
  <2>1. f.open >= 0 /\ o \in 1..Len(f.regs)
    <3>1. f.open >= 0 /\ f.open + 1 <= Len(f.regs)
      BY <1>1, <1>2, <1>3, <1>7 DEF Shape
    <3>2. Len(f.regs) \in Nat
      BY <1>1, ShapeFacts
    <3> QED BY <3>1, <3>2, <1>2
  <2>2. f.regs = pre
    BY <1>1, <1>7 DEF DealOK, WaitOK
  <2> HIDE DEF pre, adj, post, o
  <2>3. IsSeq(pre \o adj) /\ Len(pre \o adj) = Len(pre) + Len(adj) /\ \A i \in 1..Len(pre) : (pre \o adj)[i] = pre[i]
    BY <1>3, <1>5, Joined
  <2> DEFINE q == pre \o adj
  <2>4. \A i \in 1..Len(q) : (q \o post)[i] = q[i]
    <3>1. IsSeq(q) /\ IsSeq(post)
      BY <2>3, <1>3
    <3> HIDE DEF q
    <3> QED BY <3>1, Joined
  <2>5. Len(pre) \in Nat /\ Len(adj) \in Nat
    BY <1>3, <1>5, SeqFacts
  <2>6. o \in 1..Len(q) /\ o \in 1..Len(pre)
    BY <2>1, <2>2, <2>3, <2>5
  <2>7. r[o] = f.regs[o]
    BY <2>2, <2>3, <2>4, <2>6
  <2>8. ~FnInfo[f.regs[o]].vararg
    BY <1>3, <1>7, <2>1 DEF OpenFine, o
  <2>9. ~FnInfo[f1.regs[f1.open + 1]].vararg
    BY <2>7, <2>8, <1>4 DEF o
  <2> QED BY <2>9, <1>1, <1>3, <1>4 DEF OpenFine
<1> QED BY <1>6, <1>7

(* The topmost frame goes, and the one below it is another one.            *)
LEMMA FramesCut ==
  ASSUME NEW s, IsSeq(s), FramesFine(s), NEW k \in 1..Len(s), NEW e, OpenFine(e)
  PROVE  /\ FramesFine(Append(SubSeq(s, 1, k - 1), e)) /\ Len(Append(SubSeq(s, 1, k - 1), e)) = k
         /\ Append(SubSeq(s, 1, k - 1), e)[k] = e
<1> DEFINE q == SubSeq(s, 1, k - 1)
           t == Append(q, e)
<1>0. Len(s) \in Nat /\ k - 1 \in 0..Len(s) /\ k \in Nat
  BY SeqFacts
<1>1. IsSeq(q) /\ Len(q) = k - 1 /\ \A j \in 1..(k - 1) : q[j] = s[j] /\ j \in 1..Len(s)
  BY <1>0, Beginning
<1> HIDE DEF q
<1>2. Longer(q, t, e)
  BY <1>1, AppendLonger
<1> HIDE DEF t
<1>3. Len(t) = k /\ t[k] = e /\ \A j \in 1..(k - 1) : t[j] = s[j]
  BY <1>0, <1>1, <1>2 DEF Longer
<1>4. ASSUME NEW j \in 1..Len(t) PROVE OpenFine(t[j])
  <2>1. j = k \/ (j \in 1..(k - 1) /\ j \in 1..Len(s))
    BY <1>0, <1>3
  <2> QED BY <2>1, <1>3 DEF FramesFine
<1>5. FramesFine(t)
  BY <1>4 DEF FramesFine
<1> QED BY <1>3, <1>5 DEF t, q

(* The frame below the one on top has got results.                         *)
LEMMA DeliveredPlain ==
  ASSUME Knows, LoopInv, DataInv, StackHolds, NEW link, HoldsOK(stk, lua, nat, link),
         NEW k, k = Len(lua) - 1, k >= 1, NEW vs, IsSeq(vs), lua' = Delivered(vs),
         StackOK(stk'), stk.last <= stk'.last, stk'.cis = Front(stk.cis), nat' = Front(nat), rep' = FALSE, prog' = prog,
         nat'[Len(nat')].kind = "body" => Raisen(stk'.top, stk.cis[k], lua[k], prog.ops)
  PROVE  PlainInv'
<1> DEFINE f == lua[k]
           c == stk.cis[k]
           f1 == [f EXCEPT !.regs = f.want.pre \o Adjusted(vs, f.want.n) \o f.want.post]
           g == stk'
           fs == lua'
<1>1. /\ StackOK(stk) /\ IsSeq(stk.cis) /\ IsSeq(lua) /\ Len(lua) \in Nat \ {0} /\ Len(stk.cis) = Len(lua)
      /\ Ceiled(stk) /\ FramesFine(lua) /\ IsSeq(nat) /\ Len(nat) \in Nat \ {0} /\ ("dots" \in prog.ops => NoLoop(nat))
  BY DEF Knows
<1>2. k \in 1..Len(lua) /\ k \in 0..Len(stk.cis) /\ k = Len(stk.cis) - 1 /\ k \in Nat /\ k - 1 = Len(lua) - 2
  BY <1>1
<1>3. OneOK(stk, nat[link[k]], k, c, f, Last(stk.cis).n, Low(Last(stk.cis), Frame))
  BY Beneath
<1>4. OpenFine(f)
  BY <1>1, <1>2 DEF FramesFine
<1>5. fs = Append(SubSeq(lua, 1, k - 1), f1)
  BY <1>2 DEF Delivered
<1> HIDE DEF f, c, fs
<1>6. /\ f1.fn = f.fn /\ f1.ready /\ f.ready /\ f1.closed = f.closed /\ f1.open = f.open
      /\ OpenFine(f1) /\ Shape(c, f)
  BY <1>3, <1>4, DeliveredFine
<1> HIDE DEF f1
<1>7. FramesFine(fs) /\ Len(fs) = k /\ fs[k] = f1
  BY <1>1, <1>2, <1>5, <1>6, FramesCut
<1>8. Ceiled(g) /\ g.cis[k] = c
  <2>1. g.cis = SubSeq(stk.cis, 1, k)
    BY <1>2 DEF Front
  <2>2. StackOK(g) /\ stk.last <= g.last
    OBVIOUS
  <2> HIDE DEF g
  <2>3. Ceiled(g)
    BY <2>1, <2>2, <1>1, <1>2, CeiledSteps
  <2> DEFINE cs == stk.cis
  <2>4. IsSeq(cs) /\ k \in 0..Len(cs) /\ g.cis = SubSeq(cs, 1, k) /\ k \in 1..k
    BY <2>1, <1>1, <1>2
  <2> HIDE DEF cs
  <2>5. g.cis[k] = cs[k]
    BY <2>4, Beginning
  <2> QED BY <2>3, <2>5 DEF c, cs
<1>9. Unprepped(c, f1)
  BY <1>6, NothingAsked
<1>10. nat'[Len(nat')].kind = "body" \/ rep' => Raisen(stk'.top, c, f1, prog'.ops)
  <2>1. ASSUME nat'[Len(nat')].kind = "body" PROVE Raisen(stk'.top, c, f1, prog.ops)
    <3>1. Raisen(stk'.top, c, f, prog.ops)
      BY <2>1 DEF c, f
    <3> QED BY <3>1, <1>6 DEF Raisen
  <2> QED BY <2>1
<1>11. "dots" \in prog'.ops => NoLoop(nat')
  <2>1. Len(nat) >= 1
    BY <1>1
  <2> QED BY <2>1, <1>1, LoopsLess
<1>12. Ceiled(stk') /\ FramesFine(lua') /\ c = stk'.cis[Len(lua')] /\ f1 = lua'[Len(lua')]
  BY <1>7, <1>8 DEF fs
<1> HIDE DEF g
<1> QED BY <1>9, <1>10, <1>11, <1>12, PlainThen

(* Somebody waits for what is called with luaD_call.                       *)
LEMMA Awaited ==
  ASSUME Knows, LoopInv, DataInv, StackHolds, NEW link, HoldsOK(stk, lua, nat, link),
         nat[Len(nat)].kind \in {"cfn", "ccall"}, Len(nat) > 1
  PROVE  Len(lua) - 1 >= 1 /\ Front(nat)[Len(Front(nat))].kind # "body"
<1>1. Ordered(nat) /\ Len(nat) \in Nat /\ Len(lua) \in Nat \ {0} /\ IsSeq(nat) /\ Len(nat) >= 1
  BY Anywhere
<1>2. nat[Len(nat) - 1].kind \in Helper \cup {"ctail"}
  <2>1. Len(nat) \in 2..Len(nat)
    BY <1>1
  <2>2. nat[Len(nat) - 1].kind \in Under(nat[Len(nat)].kind)
    BY <1>1, <2>1 DEF Ordered
  <2> QED BY <2>2 DEF Under
<1>3. nat[Len(nat) - 1].kind \in Server /\ Len(nat) - 1 \in 1..Len(nat) /\ nat[Len(nat) - 1].kind # "body"
  BY <1>1, <1>2 DEF Server, Helper
<1>4. Serving(nat, link) /\ Len(link) = Len(lua) - 1
  <2>1. nat[Len(nat)].kind \notin Helper \cup {"ctail"}
    BY DEF Helper
  <2> QED BY <2>1 DEF HoldsOK
<1>5. PICK j \in 1..Len(link) : link[j] = Len(nat) - 1
  BY <1>3, <1>4 DEF Serving
<1>6. Len(lua) - 1 >= 1
  BY <1>1, <1>4, <1>5
<1> DEFINE u == Front(nat)
<1>7. Shorter(nat, u)
  BY <1>1, FrontShorter
<1> HIDE DEF u
<1>8. Len(u) = Len(nat) - 1 /\ Len(u) \in 1..Len(u)
  BY <1>1, <1>7 DEF Shorter
<1>9. u[Len(u)] = nat[Len(nat) - 1]
  BY <1>7, <1>8 DEF Shorter
<1> QED BY <1>3, <1>6, <1>9 DEF u

(* The slots where results are put are below the stack's end.              *)
LEMMA PoscallParts ==
  ASSUME NEW m, DOMAIN m = {"mem", "top", "last", "cis"}, NEW n
  PROVE  Poscall(m, n).last = m.last /\ Poscall(m, n).cis = Front(m.cis)
BY DEF Poscall, Topped, Put

(* A call made by C code that returns.                                     *)
LEMMA CcallReturnsPlain ==
  ASSUME Knows, LoopInv, DataInv, StackHolds, DataInv', CcallReturns
  PROVE  PlainInv'
<1> DEFINE vs == Frame.regs
           k == Len(lua) - 1
<1>1. /\ Waiting("ccall") /\ stk' = Poscall(stk, rax) /\ lua' = Delivered(vs) /\ nat' = Front(nat)
      /\ rep' = rep /\ prog' = prog
  BY DEF CcallReturns
<1>2. PICK link : HoldsOK(stk, lua, nat, link)
  BY DEF DataInv
<1>3. /\ StackOK(stk) /\ Shape(Last(stk.cis), Frame) /\ Len(nat) \in Nat \ {0} /\ Last(nat) = nat[Len(nat)]
  BY DEF Knows
<1>4. nat[Len(nat)].kind = "ccall" /\ rep = FALSE
  BY <1>1, <1>3 DEF Waiting, LoopInv
<1>5. Len(nat) > 1
  <2>1. nat[1].kind = "cfn"
    BY Anywhere DEF Ordered
  <2>2. Len(nat) # 1
    BY <2>1, <1>4
  <2> DEFINE N == Len(nat)
  <2>3. N # 1 /\ N \in Nat \ {0}
    BY <2>2, <1>3
  <2> HIDE DEF N
  <2>4. N > 1
    BY <2>3
  <2> QED BY <2>4 DEF N
<1>6. k >= 1 /\ nat'[Len(nat')].kind # "body"
  BY <1>1, <1>2, <1>4, <1>5, Awaited
<1>7. IsSeq(vs)
  BY <1>3, ShapeFacts
<1>8. StackOK(stk')
  BY DEF DataInv, HoldsOK
<1>9. stk.last <= stk'.last /\ stk'.cis = Front(stk.cis)
  <2>1. DOMAIN stk = {"mem", "top", "last", "cis"} /\ stk.last \in Nat
    BY <1>3 DEF StackOK
  <2>2. stk'.last = stk.last /\ stk'.cis = Front(stk.cis)
    BY <2>1, <1>1, PoscallParts
  <2> QED BY <2>1, <2>2
<1>10. k = Len(lua) - 1
  OBVIOUS
<1> HIDE DEF vs, k
<1> QED BY <1>1, <1>2, <1>4, <1>6, <1>7, <1>8, <1>9, <1>10, DeliveredPlain

(* A C function that returns: the frame it leaves took its ceiling with it.*)
LEMMA CReturnPlain ==
  ASSUME Knows, LoopInv, DataInv, StackHolds, DataInv', NEW n, CReturn(n)
  PROVE  PlainInv'
<1> DEFINE own == FnInfo[Frame.fn].kind = "c"
           vs == IF own THEN Tokens(n) ELSE SubSeq(Frame.regs, Frame.open + 1, Live)
           m == IF own THEN Topped(Put(stk, stk.top, vs), stk.top + n) ELSE stk
           k == Len(lua) - 1
<1>1. /\ Runs("cfn") /\ Len(nat) > 1 /\ (IF own THEN n \in Counts ELSE Frame.open >= 0 /\ n = Len(vs))
      /\ stk' \in {Poscall(m, n), Poscall(Collected(m), n)}
      /\ lua' = Delivered(vs) /\ nat' = Front(nat) /\ rep' = rep /\ prog' = prog
  BY DEF CReturn
<1>2. PICK link : Operating(link)
  BY <1>1, CFacts
<1>3. HoldsOK(stk, lua, nat, link) /\ rep = FALSE /\ nat[Len(nat)].kind = "cfn" /\ StackOK(stk)
  BY <1>2 DEF Operating
<1>4. IsSeq(vs)
  <2>1. CASE own
    <3>1. Results(Topped(Put(stk, stk.top, Tokens(n)), stk.top + n), Tokens(n), Last(stk.cis).func)
      BY <2>1, <1>1, <1>2, OwnResults
    <3> QED BY <2>1, <3>1 DEF Results
  <2>2. CASE ~own
    <3>1. Frame.open >= 0 /\ vs = SubSeq(Frame.regs, Frame.open + 1, Live)
      BY <2>2, <1>1
    <3> HIDE DEF vs
    <3>2. Results(stk, vs, Last(stk.cis).func)
      BY <3>1, <1>2, PassedResults
    <3> QED BY <3>2 DEF Results
  <2> QED BY <2>1, <2>2
<1> HIDE DEF vs
<1>5. k >= 1 /\ nat'[Len(nat')].kind # "body"
  BY <1>1, <1>3, Awaited
<1>6. StackOK(stk')
  BY DEF DataInv, HoldsOK
<1>7. stk.last <= stk'.last /\ stk'.cis = Front(stk.cis)
  <2>1. DOMAIN stk = {"mem", "top", "last", "cis"} /\ stk.last \in Nat
    BY <1>3 DEF StackOK
  <2>2. DOMAIN m = {"mem", "top", "last", "cis"} /\ m.last = stk.last /\ m.cis = stk.cis
    BY <2>1 DEF Topped, Put
  <2> HIDE DEF m
  <2>3. DOMAIN Collected(m) = {"mem", "top", "last", "cis"} /\ Collected(m).last = m.last /\ Collected(m).cis = m.cis
    BY <2>2 DEF Collected
  <2> DEFINE h == Collected(m)
  <2>4. DOMAIN h = {"mem", "top", "last", "cis"} /\ h.last = m.last /\ h.cis = m.cis /\ stk' \in {Poscall(m, n), Poscall(h, n)}
    BY <2>3, <1>1
  <2> HIDE DEF h
  <2>5. Poscall(m, n).last = m.last /\ Poscall(m, n).cis = Front(m.cis)
    BY <2>2, PoscallParts
  <2>6. Poscall(h, n).last = h.last /\ Poscall(h, n).cis = Front(h.cis)
    BY <2>4, PoscallParts
  <2>7. stk'.last = stk.last /\ stk'.cis = Front(stk.cis)
    BY <2>2, <2>4, <2>5, <2>6
  <2> QED BY <2>1, <2>7
<1>8. k = Len(lua) - 1
  OBVIOUS
<1> HIDE DEF k, m
<1> QED BY <1>1, <1>3, <1>4, <1>5, <1>6, <1>7, <1>8, DeliveredPlain

(* Rt_Call that has its results.                                           *)
LEMMA RtCallReturnsPlain ==
  ASSUME Knows, LoopInv, DataInv, StackHolds, DataInv', RtCallReturns
  PROVE  PlainInv'
<1> DEFINE r == Last(nat)
           func == stk.cis[Len(stk.cis) - 1].func + 1 + r.a
           vs == Adjusted(Read(stk, Last(stk.cis).func, stk.top - Last(stk.cis).func), r.n)
           m == [Topped(Put(stk, func, vs), func + Len(vs)) EXCEPT !.cis = Front(@)]
           k == Len(lua) - 1
           f == lua[k]
           c == stk.cis[k]
<1>1. /\ Waiting("rtcall") /\ stk' = (IF r.n = MULTRET THEN m ELSE Claimed(m))
      /\ lua' = Delivered(Frame.regs) /\ nat' = Front(nat) /\ rep' = rep /\ prog' = prog
  BY DEF RtCallReturns, ToBody
<1>2. PICK link : HoldsOK(stk, lua, nat, link)
  BY DEF DataInv
<1>3. /\ StackOK(stk) /\ Shape(Last(stk.cis), Frame) /\ Len(nat) \in Nat \ {0} /\ Last(nat) = nat[Len(nat)]
      /\ Len(lua) \in Nat \ {0} /\ IsSeq(nat) /\ Len(stk.cis) = Len(lua) /\ IsSeq(stk.cis)
  BY DEF Knows
<1>4. nat[Len(nat)].kind = "rtcall" /\ rep = FALSE
  BY <1>1, <1>3 DEF Waiting, LoopInv
<1>5. Len(link) = k /\ Len(link) >= 1 /\ link[Len(link)] = Len(nat)
  <2>1. nat[Len(nat)].kind \notin Helper \cup {"ctail"} /\ nat[Len(nat)].kind \in Server
    BY <1>4 DEF Helper, Server
  <2>2. Serving(nat, link) /\ Len(link) = k
    BY <2>1, <1>2 DEF HoldsOK
  <2>3. Len(nat) >= 1
    BY <1>3
  <2> QED BY <2>1, <2>2, <2>3, <1>3, ServingPop
<1>6. nat[link[k]] = r /\ k >= 1
  BY <1>3, <1>5
<1>7. IsSeq(Frame.regs)
  BY <1>3, ShapeFacts
<1>8. StackOK(stk')
  BY DEF DataInv, HoldsOK
<1>9. m.last = stk.last /\ m.cis = Front(stk.cis) /\ DOMAIN m = {"mem", "top", "last", "cis"} /\ stk.last \in Nat
  BY <1>3 DEF StackOK, Topped, Put
<1> HIDE DEF m
<1>10. stk.last <= stk'.last /\ stk'.cis = Front(stk.cis)
  <2>1. Claimed(m).last = m.last /\ Claimed(m).cis = m.cis
    BY <1>9 DEF Claimed, Topped
  <2>2. stk'.last = stk.last /\ stk'.cis = Front(stk.cis)
    BY <2>1, <1>1, <1>9
  <2> QED BY <2>2, <1>9
<1>11. k = Len(lua) - 1
  OBVIOUS
<1> HIDE DEF k, r
<1>12. OneOK(stk, r, k, c, f, Last(stk.cis).n, Low(Last(stk.cis), Frame))
  <2>1. OneOK(stk, nat[link[k]], k, c, f, Last(stk.cis).n, Low(Last(stk.cis), Frame))
    BY <1>2, <1>6, <1>11, Beneath
  <2> QED BY <2>1, <1>6
<1>13. Raisen(stk'.top, c, f, prog.ops)
  <2>1. Shape(c, f) /\ DealOK(stk, r, k, c, f)
    BY <1>12 DEF OneOK, FrameOK
  <2>2. CASE r.n = MULTRET
    <3>1. r.kind = "rtcall"
      BY <1>3, <1>4 DEF r
    <3>2. f.open # -1
      BY <3>1, <2>1, <2>2 DEF DealOK, MULTRET
    <3> HIDE DEF f, c
    <3> QED BY <3>2, NothingAsked
  <2>3. CASE r.n # MULTRET
    <3>1. stk' = Topped(m, Last(m.cis).top)
      BY <2>3, <1>1 DEF Claimed
    <3>2. stk'.top = Last(m.cis).top
      BY <3>1, <1>9 DEF Topped
    <3>3. Last(m.cis) = c
      <4> DEFINE cs == stk.cis
                 d == Front(cs)
      <4>1. IsSeq(cs) /\ Len(cs) >= 1 /\ Len(cs) = Len(lua) /\ k = Len(lua) - 1 /\ k >= 1 /\ Len(lua) \in Nat
        BY <1>3, <1>6, <1>11
      <4> HIDE DEF cs
      <4>2. Shorter(cs, d)
        BY <4>1, FrontShorter
      <4> HIDE DEF d
      <4>3. Len(d) = k /\ k \in 1..Len(d)
        BY <4>1, <4>2 DEF Shorter
      <4>4. d[Len(d)] = cs[k]
        BY <4>2, <4>3 DEF Shorter
      <4>5. Last(d) = cs[k]
        BY <4>4 DEF Last
      <4> QED BY <4>5, <1>9 DEF cs, d
    <3> HIDE DEF f, c
    <3>4. Raisen(c.top, c, f, prog.ops)
      BY <2>1, RaisenClaimed
    <3> QED BY <3>2, <3>3, <3>4
  <2> QED BY <2>2, <2>3
<1>14. Raisen(stk'.top, stk.cis[k], lua[k], prog.ops)
  BY <1>13
<1> HIDE DEF f, c
<1> QED BY <1>1, <1>2, <1>4, <1>6, <1>7, <1>8, <1>10, <1>11, <1>14, DeliveredPlain

-----------------------------------------------------------------------------
(* Another function runs.                                                  *)

(* Of a function that has just been called nothing is asked but room.      *)
LEMMA FreshFrame ==
  ASSUME NEW e, e.open = -1, e.ready = ~FnInfo[e.fn].vararg
  PROVE  /\ OpenFine(e) /\ \A t, c, ops : Raisen(t, c, e, ops)
         /\ \A c : (FnInfo[e.fn].vararg => c.top = c.func + 1 + FnInfo[e.fn].size) => Unprepped(c, e)
<1>1. ~(e.open >= 0)
  OBVIOUS
<1>2. OpenFine(e)
  BY <1>1 DEF OpenFine
<1>3. \A t, c, ops : Raisen(t, c, e, ops)
  BY Zenon DEF Raisen
<1>4. \A c : (FnInfo[e.fn].vararg => c.top = c.func + 1 + FnInfo[e.fn].size) => Unprepped(c, e)
  BY Zenon DEF Unprepped
<1> QED BY <1>2, <1>3, <1>4

(* A frame comes on top of one that waits.                                 *)
LEMMA FramesPush ==
  ASSUME NEW s, IsSeq(s), Len(s) >= 1, FramesFine(s), NEW e, OpenFine(e), NEW d, OpenFine(d),
         NEW t, t = Append(Append(Front(s), e), d)
  PROVE  FramesFine(t) /\ Len(t) = Len(s) + 1 /\ t[Len(s) + 1] = d
<1> DEFINE q == Append(Front(s), e)
<1>1. FramesFine(q) /\ Len(q) = Len(s) /\ IsSeq(q) /\ Len(s) \in Nat
  BY FramesNow, NowSeq
<1>2. t = Append(q, d)
  OBVIOUS
<1> HIDE DEF q
<1>3. Longer(q, t, d)
  BY <1>1, <1>2, AppendLonger
<1>4. Len(t) = Len(s) + 1 /\ t[Len(s) + 1] = d /\ \A j \in 1..Len(s) : t[j] = q[j]
  BY <1>1, <1>3 DEF Longer
<1>5. ASSUME NEW j \in 1..Len(t) PROVE OpenFine(t[j])
  <2>1. j = Len(s) + 1 \/ j \in 1..Len(q)
    BY <1>1, <1>4
  <2> QED BY <2>1, <1>1, <1>4 DEF FramesFine
<1>6. FramesFine(t)
  BY <1>5 DEF FramesFine
<1> QED BY <1>4, <1>6

(* A call keeps it.                                                        *)
LEMMA HandsPlain ==
  ASSUME Knows, HandsOver, prog' = prog
  PROVE  PlainInv'
<1> DEFINE K == Len(lua)
           cs == stk.cis
           g == stk'
<1>1. /\ StackOK(stk) /\ IsSeq(cs) /\ IsSeq(lua) /\ K \in Nat \ {0} /\ Len(cs) = K
      /\ IsSeq(nat) /\ Len(nat) \in Nat \ {0} /\ Ceiled(stk) /\ FramesFine(lua) /\ K >= 1 /\ Len(nat) >= 1
      /\ "dots" \in prog.ops => NoLoop(nat) /\ "tfor" \notin prog.ops
  BY DEF Knows
<1>2. NoVarargs
  BY DEF Knows, NoVarargs
<1>3. PICK m, func, n, ns, x, f1, fn, args :
        /\ Ready(m, func, fn, args) /\ m.cis = stk.cis /\ stk.last <= m.last
        /\ Handed(m, func, n, ns, x, f1, fn, args) /\ ns \in {nat, Front(nat)}
        /\ (x.kind = "tfor" => "tfor" \in prog.ops)
        /\ (NoVarargs => OpenFine(f1) /\ Exact(stk', func, fn))
  BY DEF HandsOver
<1> DEFINE e == Called(fn, args)
<1>4. /\ Entered(m, g, func, n, fn, args) /\ Above(ns, x, nat') /\ lua' = Append(Now(f1), e)
  BY <1>3 DEF Handed
<1>5. StackOK(g) /\ stk.last <= g.last /\ stk.last \in Nat /\ m.last \in Nat /\ g.last \in Nat
  <2>1. StackOK(m) /\ StackOK(g) /\ m.last <= g.last
    BY <1>3, <1>4 DEF Ready, Entered, Agree
  <2>2. stk.last \in Nat /\ m.last \in Nat /\ g.last \in Nat
    BY <2>1, <1>1 DEF StackOK
  <2> HIDE DEF g
  <2> QED BY <2>1, <2>2, <1>3
<1>6. PICK ci : g.cis = Append(cs, ci) /\ NewCI(g, ci, func, n, fn)
  BY <1>3, <1>4 DEF Entered
<1>7. e.fn = fn /\ e.open = -1 /\ e.ready = ~FnInfo[fn].vararg
  <2>1. Called(fn, args).fn = fn
    BY CalledFields
  <2>2. Called(fn, args).open = -1
    BY CalledFields
  <2>3. Called(fn, args).ready = ~FnInfo[fn].vararg
    BY CalledFields
  <2> QED BY <2>1, <2>2, <2>3
<1> HIDE DEF g, cs, K, e
<1>8. Len(g.cis) = K + 1 /\ g.cis[K + 1] = ci
  BY <1>1, <1>6, AppendLonger DEF Longer
<1>9. Ceiled(g)
  <2>1. ci.top \in Nat /\ ci.top <= Room(g)
    BY <1>6 DEF NewCI, InfoOK
  <2> QED BY <2>1, <1>1, <1>5, <1>6, CeiledSteps DEF cs
<1>10. OpenFine(f1) /\ Exact(g, func, fn)
  BY <1>2, <1>3 DEF g
<1>11. OpenFine(e) /\ (\A t, c, ops : Raisen(t, c, e, ops))
       /\ \A c : (FnInfo[e.fn].vararg => c.top = c.func + 1 + FnInfo[e.fn].size) => Unprepped(c, e)
  BY <1>7, FreshFrame
<1>12. Unprepped(ci, e)
  <2>1. ci.func = func
    BY <1>6 DEF NewCI
  <2> QED BY <2>1, <1>7, <1>8, <1>10, <1>11 DEF Exact
<1>13. FramesFine(lua') /\ Len(lua') = K + 1 /\ lua'[K + 1] = e
  <2>1. lua' = Append(Append(Front(lua), f1), e)
    BY <1>4 DEF Now
  <2>2. FramesFine(lua') /\ Len(lua') = Len(lua) + 1 /\ lua'[Len(lua) + 1] = e
    <3> DEFINE fs == lua
               gs == lua'
    <3>1. IsSeq(fs) /\ Len(fs) >= 1 /\ FramesFine(fs) /\ OpenFine(f1) /\ OpenFine(e) /\ gs = Append(Append(Front(fs), f1), e)
      BY <2>1, <1>1, <1>10, <1>11 DEF K
    <3> HIDE DEF fs, gs
    <3>2. FramesFine(gs) /\ Len(gs) = Len(fs) + 1 /\ gs[Len(fs) + 1] = e
      BY <3>1, FramesPush
    <3> QED BY <3>2 DEF fs, gs
  <2> QED BY <2>2 DEF K
<1>14. "dots" \in prog'.ops => NoLoop(nat')
  <2> SUFFICES ASSUME "dots" \in prog.ops PROVE NoLoop(nat')
    OBVIOUS
  <2>1. NoLoop(nat) /\ x.kind # "tfor"
    BY <1>1, <1>3
  <2>2. NoLoop(ns) /\ IsSeq(ns)
    <3>1. NoLoop(Front(nat)) /\ IsSeq(Front(nat))
      BY <2>1, <1>1, LoopsLess, FrontShorter DEF Shorter
    <3> QED BY <3>1, <2>1, <1>1, <1>3
  <2> QED BY <2>1, <2>2, <1>4, LoopsLess
<1>15. Ceiled(stk') /\ ci = stk'.cis[Len(lua')] /\ e = lua'[Len(lua')]
  BY <1>8, <1>9, <1>13 DEF g
<1>16. nat'[Len(nat')].kind = "body" \/ rep' => Raisen(stk'.top, ci, e, prog'.ops)
  BY <1>11
<1> QED BY <1>12, <1>13, <1>14, <1>15, <1>16, PlainThen

(* So does a tail call, which may be left to a drive loop or start one.    *)
LEMMA TakesPlain ==
  ASSUME Knows, LoopInv, DataInv, StackHolds, Runs("body"), Frame.ready, TakesOver, prog' = prog
  PROVE  PlainInv'
<1> DEFINE K == Len(lua)
           cs == stk.cis
           g == stk'
           u == Front(nat)
<1>1. /\ StackOK(stk) /\ IsSeq(cs) /\ IsSeq(lua) /\ K \in Nat \ {0} /\ Len(cs) = K
      /\ IsSeq(nat) /\ Ceiled(stk) /\ FramesFine(lua) /\ K >= 1 /\ Len(nat) >= 1
      /\ "dots" \in prog.ops => NoLoop(nat)
  BY DEF Knows
<1>2. PICK fn, args, f1, c :
        /\ fn \in DOMAIN FnInfo /\ IsCalled(f1, fn, args) /\ lua' = Now(f1)
        /\ StackOK(g) /\ stk.last <= g.last /\ SameBelow(cs, g.cis) /\ g.cis[K] = c
        /\ c.func \in Nat /\ c.top = c.func + 1 + FnInfo[fn].size /\ c.top <= Room(g)
        /\ nat' = TailStack(u, Nested)
  BY DEF TakesOver
<1>3. f1.fn = fn /\ f1.open = -1 /\ f1.ready = ~FnInfo[fn].vararg
  BY <1>2 DEF IsCalled
<1>4. c.top \in Nat
  BY <1>2, FnFacts
<1> HIDE DEF g, cs, K
<1>5. Len(g.cis) = K /\ \A i \in 1..Len(g.cis) : (i \in 1..(K - 1) /\ g.cis[i] = cs[i]) \/ (i = K /\ g.cis[i] = c)
  BY <1>1, <1>2 DEF SameBelow
<1>6. Ceiled(g)
  <2>1. \A i \in 1..Len(g.cis) : (i \in 1..Len(stk.cis) /\ g.cis[i].top = stk.cis[i].top)
                                  \/ (g.cis[i].top \in Nat /\ g.cis[i].top <= Room(g))
    BY <1>1, <1>2, <1>4, <1>5 DEF cs
  <2> QED BY <2>1, <1>1, <1>2, CeiledOn
<1>7. OpenFine(f1) /\ (\A t, d, ops : Raisen(t, d, f1, ops)) /\ Unprepped(c, f1)
  BY <1>2, <1>3, FreshFrame
<1>8. FramesFine(lua') /\ Len(lua') = K /\ lua'[K] = f1
  BY <1>1, <1>2, <1>7, FramesNow DEF Now, K
<1>9. "dots" \in prog'.ops => NoLoop(nat')
  <2> SUFFICES ASSUME "dots" \in prog.ops PROVE NoLoop(nat')
    OBVIOUS
  <2>1. NoLoop(u) /\ IsSeq(u)
    BY <1>1, LoopsLess, FrontShorter DEF Shorter
  <2> DEFINE d == Act("drive", 0, 0)
             b == Body
             none == <<>>
  <2>2. d.kind # "tfor" /\ b.kind # "tfor"
    BY DEF Act, Body
  <2>3. IsSeq(none) /\ Len(none) = 0
    BY Singles
  <2>4. nat' = u \o (IF Nested THEN none ELSE <<d, b>>)
    BY <1>2 DEF TailStack
  <2> HIDE DEF d, b, none, u
  <2>5. u \o <<d, b>> = Append(Append(u, d), b)
    BY <2>1, TwoLonger
  <2>6. NoLoop(Append(u, d)) /\ IsSeq(Append(u, d))
    BY <2>1, <2>2, LoopsLess, AppendLonger DEF Longer
  <2>7. NoLoop(Append(Append(u, d), b))
    BY <2>2, <2>6, LoopsLess
  <2>8. u \o none = u
    BY <2>1, <2>3, Joined
  <2> QED BY <2>1, <2>4, <2>5, <2>7, <2>8
<1>10. Ceiled(stk') /\ c = stk'.cis[Len(lua')] /\ f1 = lua'[Len(lua')]
  BY <1>2, <1>6, <1>8 DEF g
<1>11. nat'[Len(nat')].kind = "body" \/ rep' => Raisen(stk'.top, c, f1, prog'.ops)
  BY <1>7
<1> QED BY <1>7, <1>8, <1>9, <1>10, <1>11, PlainThen

-----------------------------------------------------------------------------
(* A function leaves.                                                      *)

(* Whoever gets its results asks for nothing but that they are there.      *)
LEMMA GoesBackPlain ==
  ASSUME Knows, GoesBack, prog' = prog
  PROVE  PlainInv'
<1>1. PICK f1, c1 :
        /\ lua' = Now(f1) /\ f1.ready = Frame.ready /\ Frame.ready /\ f1.ret = TRUE
        /\ StackOK(stk') /\ stk.last <= stk'.last
        /\ stk'.cis = Append(Front(stk.cis), c1) /\ c1.top = Last(stk.cis).top
        /\ nat' = Front(nat) /\ nat'[Len(nat')].kind \in Entry /\ rep' = FALSE
  BY DEF GoesBack
<1>2. OpenFine(f1)
  BY <1>1 DEF OpenFine
<1>3. Unprepped(c1, f1)
  BY <1>1 DEF Unprepped
<1>4. nat'[Len(nat')].kind = "body" \/ rep' => Raisen(stk'.top, c1, f1, prog.ops)
  BY <1>1 DEF Entry
<1>5. "dots" \in prog.ops => NoLoop(nat')
  <2>1. IsSeq(nat) /\ Len(nat) >= 1 /\ ("dots" \in prog.ops => NoLoop(nat))
    BY DEF Knows
  <2> QED BY <2>1, <1>1, LoopsLess
<1> QED BY <1>1, <1>2, <1>3, <1>4, <1>5, PlainKeeps

(* The drive loop changes its mark in the frame, and nothing else there.   *)
LEMMA DriveReturnsPlain ==
  ASSUME Knows, LoopInv, DataInv, StackHolds, DriveReturns
  PROVE  PlainInv'
<1> DEFINE c == Last(stk.cis)
           c1 == [c EXCEPT !.drive = rep]
<1>1. /\ rep' = FALSE /\ stk' = SetCI(stk, c1) /\ lua' = lua /\ prog' = prog
      /\ IF rep THEN nat' = Append(nat, Body) ELSE nat' = Front(nat)
  BY DEF DriveReturns
<1>2. /\ StackOK(stk) /\ Shape(c, Frame) /\ OpenFine(Frame) /\ Unprepped(c, Frame)
      /\ IsSeq(nat) /\ Len(nat) >= 1 /\ ("dots" \in prog.ops => NoLoop(nat))
      /\ (rep => Raisen(stk.top, c, Frame, prog.ops))
  BY DEF Knows
<1>3. c1.top = c.top /\ c1.func = c.func
  <2>1. DOMAIN c = {"func", "top", "n", "drive", "nextra"}
    BY <1>2 DEF Shape, InfoOK
  <2> HIDE DEF c
  <2> QED BY <2>1
<1> HIDE DEF c1
<1>4. SameSlots(stk, stk') /\ stk'.top = stk.top /\ stk'.cis = Append(Front(stk.cis), c1)
  BY <1>1, <1>2, SetCIDoes
<1>5. StackOK(stk') /\ stk.last <= stk'.last
  <2>1. stk.last \in Nat
    BY <1>2 DEF StackOK
  <2> QED BY <2>1, <1>4 DEF SameSlots
<1> HIDE DEF c
<1>6. Unprepped(c1, Frame)
  BY <1>2, <1>3 DEF Unprepped
<1>7. rep => Raisen(stk'.top, c1, Frame, prog.ops)
  BY <1>2, <1>3, <1>4 DEF Raisen
<1>8. nat'[Len(nat')].kind = "body" \/ rep' => Raisen(stk'.top, c1, Frame, prog.ops)
  <2>1. ~rep => nat'[Len(nat')].kind \in {"rtcall", "ccall"}
    BY DriveReturnsKeeps
  <2> QED BY <2>1, <1>1, <1>7
<1>9. "dots" \in prog.ops => NoLoop(nat')
  <2> SUFFICES ASSUME "dots" \in prog.ops PROVE NoLoop(nat')
    OBVIOUS
  <2>1. Body.kind # "tfor" /\ NoLoop(nat)
    BY <1>2 DEF Body, Act
  <2> QED BY <2>1, <1>1, <1>2, LoopsLess
<1>10. c1.top = Last(stk.cis).top
  BY <1>3 DEF c
<1> QED BY <1>1, <1>2, <1>4, <1>5, <1>6, <1>8, <1>9, <1>10, PlainKeeps

(* A vararg function that has been given just its registers has room where *)
(* it moves its frame to, and is at its ceiling there.                     *)
LEMMA VarargPrepPlain ==
  ASSUME Knows, LoopInv, DataInv, StackHolds, VarargPrep
  PROVE  PlainInv' /\ StackHolds'
<1> DEFINE c == Last(stk.cis)
           K == Len(lua)
<1>1. nat' = nat /\ rep' = rep /\ prog' = prog /\ ~Frame.ready
  BY DEF VarargPrep
<1>2. PICK f1, c1 :
        /\ lua' = Now(f1) /\ f1.fn = Frame.fn /\ f1.ready = TRUE /\ f1.open = -1
        /\ StackOK(stk') /\ stk.last <= stk'.last /\ stk'.cis = Append(Front(stk.cis), c1) /\ stk'.top = c1.top
        /\ c1.func \in Nat /\ c1.top \in Nat /\ c1.func + 1 + FnInfo[f1.fn].size <= c1.top
        /\ c1.top = c.top + Live + 1 /\ stk.top = c.func + 1 + Live
        /\ stk.top + FnInfo[f1.fn].size + 1 <= stk'.last
  BY VarargPrepKeeps DEF Prepared
<1>3. /\ StackOK(stk) /\ Shape(c, Frame) /\ Unprepped(c, Frame) /\ ("dots" \in prog.ops => NoLoop(nat))
      /\ IsSeq(lua) /\ K \in Nat \ {0} /\ K >= 1 /\ IsSeq(stk.cis) /\ Len(stk.cis) = K /\ Len(stk.cis) >= 1
  BY DEF Knows
<1>4. c.func \in Nat /\ Live \in Nat /\ FnInfo[Frame.fn].size \in Nat /\ stk'.last \in Nat
  <2>1. c.func \in Nat /\ Frame.fn \in DOMAIN FnInfo /\ IsSeq(Frame.regs)
    BY <1>3, ShapeFacts
  <2> QED BY <2>1, <1>2, FnFacts, SeqFacts DEF Live, StackOK
<1>5. c.top = c.func + 1 + FnInfo[Frame.fn].size
  BY <1>1, <1>3 DEF Unprepped
<1>6. c1.top <= Room(stk')
  <2> DEFINE w == c.func
             z == FnInfo[Frame.fn].size
             t == c.top
             u == stk.top
             y == stk'.last
             v == c1.top
             r == Room(stk')
  <2>1. /\ w \in Nat /\ z \in Nat /\ Live \in Nat /\ y \in Nat /\ t = w + 1 + z /\ u = w + 1 + Live
        /\ v = t + Live + 1 /\ u + z + 1 <= y /\ r = y + Extra - 3 /\ Extra \in Nat /\ Extra >= 3
    BY <1>2, <1>4, <1>5, ExtraNat DEF Room
  <2> HIDE DEF w, z, t, u, y, v, r
  <2>2. v <= r
    BY <2>1
  <2> QED BY <2>2 DEF v, r
<1>7. OpenFine(f1)
  BY <1>2 DEF OpenFine
<1>8. Unprepped(c1, f1)
  BY <1>2 DEF Unprepped
<1>9. \A ops : Raisen(stk'.top, c1, f1, ops)
  BY <1>2 DEF Raisen
<1>10. PlainInv'
  <2>1. c1.top \in Nat /\ c1.top <= Room(stk')
    BY <1>2, <1>6
  <2> QED BY <1>1, <1>2, <1>3, <1>7, <1>8, <1>9, <2>1, PlainKeeps
<1>11. Ceilings'
  <2> DEFINE g == stk'
  <2>1. Ceiled(g)
    BY <1>10 DEF PlainInv, PlainOK
  <2>2. \A i \in 1..Len(g.cis) : g.cis[i].top <= g.last + Extra - 3
    BY <2>1 DEF Ceiled, Room
  <2> QED BY <2>2 DEF Ceilings
<1>12. KeptBelow'
  <2>1. Last(stk'.cis) = c1
    <3> DEFINE s == stk.cis
               d == stk'.cis
    <3>1. IsSeq(s) /\ Len(s) >= 1 /\ d = Append(Front(s), c1)
      BY <1>2, <1>3
    <3> HIDE DEF s, d
    <3>2. d[Len(d)] = c1
      BY <3>1, NowSeq
    <3> QED BY <3>2 DEF Last, d
  <2>2. Frame' = f1
    <3> DEFINE s == lua
               d == lua'
    <3>1. IsSeq(s) /\ Len(s) >= 1 /\ d = Append(Front(s), f1)
      BY <1>2, <1>3 DEF Now
    <3> HIDE DEF s, d
    <3>2. d[Len(d)] = f1
      BY <3>1, NowSeq
    <3> QED BY <3>2 DEF Frame, Last, d
  <2>3. c1.func + 1 + FnInfo[f1.fn].size <= stk'.top
    BY <1>2
  <2> QED BY <2>1, <2>2, <2>3 DEF KeptBelow, Base, FrameSize
<1> QED BY <1>10, <1>11, <1>12 DEF StackHolds

(* The C function that catches an error asks for nothing.                  *)
LEMMA ThrowPlain ==
  ASSUME Knows, LoopInv, DataInv, StackHolds, Throw
  PROVE  PlainInv'
<1> DEFINE g == stk'
           fs == lua'
<1>1. prog' = prog
  BY DEF Throw
<1>2. /\ StackOK(stk) /\ Ceiled(stk) /\ IsSeq(nat) /\ ("dots" \in prog.ops => NoLoop(nat))
      /\ Len(stk.cis) = Len(lua) /\ FramesFine(lua) /\ Len(lua) \in Nat
  BY DEF Knows
<1>3. PICK l, f1, k :
        /\ l \in 1..Len(lua) /\ f1.fn \in DOMAIN FnInfo /\ ~IsLua(f1.fn) /\ f1.ready
        /\ Len(fs) = l /\ fs[l] = f1 /\ \A j \in 1..(l - 1) : fs[j] = lua[j]
        /\ StackOK(g) /\ stk.last <= g.last
        /\ Len(g.cis) = l /\ \A j \in 1..l : g.cis[j] = stk.cis[j]
        /\ k \in 0..Len(nat) /\ nat' = SubSeq(nat, 1, k) /\ nat'[Len(nat')].kind = "cfn" /\ rep' = FALSE
  BY ThrowKeeps DEF CutBack
<1> HIDE DEF g, fs
<1>4. Ceiled(g)
  <2>1. \A i \in 1..Len(g.cis) : (i \in 1..Len(stk.cis) /\ g.cis[i].top = stk.cis[i].top)
                                  \/ (g.cis[i].top \in Nat /\ g.cis[i].top <= Room(g))
    BY <1>2, <1>3
  <2> QED BY <2>1, <1>2, <1>3, CeiledOn
<1>5. FramesFine(fs)
  <2>1. OpenFine(f1)
    BY <1>3 DEF OpenFine
  <2>2. ASSUME NEW j \in 1..Len(fs) PROVE OpenFine(fs[j])
    <3>1. j = l \/ (j \in 1..(l - 1) /\ j \in 1..Len(lua))
      BY <1>2, <1>3
    <3> QED BY <3>1, <2>1, <1>2, <1>3 DEF FramesFine
  <2> QED BY <2>2 DEF FramesFine
<1>6. Unprepped(g.cis[l], f1)
  BY <1>3 DEF Unprepped
<1>7. "dots" \in prog'.ops => NoLoop(nat')
  BY <1>1, <1>2, <1>3, LoopsLess
<1>8. Ceiled(stk') /\ FramesFine(lua') /\ g.cis[l] = stk'.cis[Len(lua')] /\ f1 = lua'[Len(lua')]
  BY <1>3, <1>4, <1>5 DEF g, fs
<1>9. nat'[Len(nat')].kind = "body" \/ rep' => Raisen(stk'.top, g.cis[l], f1, prog'.ops)
  BY <1>3
<1> QED BY <1>6, <1>7, <1>8, <1>9, PlainThen

-----------------------------------------------------------------------------
(* From the first state on.                                                *)

(* The program starts with one ceiling, on the stack.                      *)
LEMMA PlainStarts == CallsInit => PlainInv
<1> SUFFICES ASSUME CallsInit PROVE PlainInv
  OBVIOUS
<1> DEFINE given == <<prog.start>> \o Tokens(prog.args)
           none == [mem |-> [i \in 0..(prog.last + Extra - 1) |-> nil], top |-> Len(given) + 1,
                    last |-> prog.last, cis |-> <<>>]
           ci == [func |-> 0, top |-> 1 + MinStack, n |-> 0, drive |-> FALSE, nextra |-> 0]
           f == Called(Host, given)
           q == PushCI(none, 0, 1 + MinStack, 0)
<1>1. /\ prog \in Programs /\ rep = FALSE /\ nat = <<CFunction>>
      /\ stk = Put(q, 0, <<Host>> \o given) /\ lua = <<f>>
  BY DEF CallsInit
<1>2. stk.last = prog.last /\ stk.cis = <<ci>>
  <2>1. DOMAIN none = {"mem", "top", "last", "cis"} /\ none.last = prog.last /\ none.cis = <<>>
    OBVIOUS
  <2> HIDE DEF none
  <2>2. DOMAIN q = {"mem", "top", "last", "cis"} /\ q.last = prog.last /\ q.cis = Append(<<>>, ci)
    BY <2>1 DEF PushCI
  <2>3. Append(<<>>, ci) = <<ci>>
    OBVIOUS
  <2> HIDE DEF q, ci
  <2> QED BY <2>2, <2>3, <1>1 DEF Put
<1>3. ci.top \in Nat /\ ci.top <= Room(stk)
  <2> DEFINE y == prog.last
             z == prog.args
             r == Room(stk)
  <2>1. /\ y \in Nat /\ z \in Nat /\ z + 2 + MinStack <= y /\ MinStack \in Nat /\ Extra \in Nat /\ Extra >= 3
        /\ r = y + Extra - 3
    BY <1>1, <1>2, CallsAssumption DEF Room
  <2> HIDE DEF y, z, r
  <2>2. 1 + MinStack \in Nat /\ 1 + MinStack <= r
    BY <2>1
  <2> QED BY <2>2 DEF r
<1>4. FnInfo[Host].vararg = FALSE /\ f.fn = Host /\ f.open = -1 /\ f.ready = ~FnInfo[Host].vararg
  <2>1. Host \in DOMAIN FnInfo /\ ~IsLua(Host)
    BY CallsAssumption DEF IsLua
  <2>2. FnInfo[Host].vararg = FALSE
    BY <2>1, FnFacts
  <2>3. f.fn = Host
    BY CalledFields
  <2> HIDE DEF given
  <2>4. f.open = -1
    BY CalledFields
  <2>5. f.ready = ~FnInfo[Host].vararg
    BY CalledFields
  <2> QED BY <2>2, <2>3, <2>4, <2>5
<1> HIDE DEF f, ci
<1>5. CFunction.kind = "cfn"
  BY DEF CFunction, Act
<1> HIDE DEF CFunction
<1>6. /\ Len(stk.cis) = 1 /\ stk.cis[1] = ci /\ Len(lua) = 1 /\ lua[1] = f /\ Len(nat) = 1 /\ nat[1].kind = "cfn"
  BY <1>1, <1>2, <1>5, Singles
<1>7. OpenFine(f) /\ (\A t, c, ops : Raisen(t, c, f, ops)) /\ Unprepped(ci, f)
  BY <1>4, FreshFrame
<1>8. Ceiled(stk)
  BY <1>3, <1>6 DEF Ceiled
<1>9. FramesFine(lua)
  BY <1>6, <1>7 DEF FramesFine
<1>10. NoLoop(nat)
  BY <1>6 DEF NoLoop
<1> QED BY <1>6, <1>7, <1>8, <1>9, <1>10 DEF PlainInv, PlainOK, TopFine

(* Every step keeps it, and the values in place with it.                   *)
LEMMA PlainNext ==
  PlainPrograms /\ LoopInv /\ DataInv /\ PlainInv /\ [CallsNext]_callsVars => DataInv' /\ PlainInv'
<1> SUFFICES ASSUME PlainPrograms, LoopInv, DataInv, PlainInv, [CallsNext]_callsVars PROVE DataInv' /\ PlainInv'
  OBVIOUS
<1>1. Knows /\ StackHolds
  BY PlainKnows
<1>2. VarargPrep => PlainInv' /\ StackHolds'
  BY <1>1, VarargPrepPlain
<1>3. DataInv'
  BY <1>1, <1>2, CallsNextData
<1> SUFFICES PlainInv'
  BY <1>3
<1>4. CASE Instruction
  <2>1. CASE VarargPrep
    BY <2>1, <1>2
  <2>2. CASE Load
    BY <2>2, <1>1, LoadPlain
  <2>3. CASE NewTable
    BY <2>3, <1>1, NewTablePlain
  <2>4. CASE SetList
    BY <2>4, <1>1, SetListPlain
  <2>5. CASE Close
    <3>1. prog' = prog
      BY <2>5 DEF Close
    <3> QED BY <2>5, <3>1, <1>1, CloseKeeps, HandsPlain
  <2>6. CASE TailOpen
    <3>1. prog' = prog /\ Runs("body") /\ Frame.ready
      BY <2>6 DEF TailOpen, Consumes, MayLeave
    <3> QED BY <2>6, <3>1, <1>1, TailOpenKeeps, HandsPlain, TakesPlain
  <2>7. CASE Throw
    BY <2>7, <1>1, ThrowPlain
  <2>8. CASE \E s \in Shapes, fn \in prog.fns : s[2] # MULTRET /\ Call(fn, s[1], s[2])
    <3>1. PICK s \in Shapes, fn \in prog.fns : s[2] # MULTRET /\ Call(fn, s[1], s[2])
      BY <2>8
    <3> DEFINE nargs == s[1]
               n == s[2]
    <3>2. nargs \in Nat /\ n \in Nat /\ Call(fn, nargs, n)
      BY <3>1, CallsAssumption DEF MULTRET
    <3> HIDE DEF nargs, n
    <3>3. prog' = prog
      BY <3>2 DEF Call
    <3>4. HandsOver
      BY <3>2, <1>1, CallActionKeeps
    <3> QED BY <3>3, <3>4, <1>1, HandsPlain
  <2>9. CASE \E fn \in prog.fns : OpenVararg(fn) \/ \E g \in prog.fns : OpenCall(fn, g)
    <3>1. ASSUME NEW fn \in prog.fns, NEW g \in prog.fns, OpenCall(fn, g) PROVE PlainInv'
      <4>1. prog' = prog
        BY <3>1 DEF OpenCall
      <4>2. HandsOver
        BY <3>1, <1>1, OpenCallKeeps
      <4> QED BY <4>1, <4>2, <1>1, HandsPlain
    <3> QED BY <2>9, <3>1, <1>1, OpenVarargPlain
  <2>10. CASE \E n \in Counts : CallOpen(n) \/ Vararg(n) \/ TForCall(n)
    <3>1. ASSUME NEW n \in Counts, CallOpen(n) PROVE PlainInv'
      <4>1. prog' = prog
        BY <3>1 DEF CallOpen, Consumes
      <4>2. HandsOver
        BY <3>1, <1>1, CallOpenKeeps
      <4> QED BY <4>1, <4>2, <1>1, HandsPlain
    <3>2. ASSUME NEW n \in Counts, TForCall(n) PROVE PlainInv'
      <4>1. prog' = prog
        BY <3>2 DEF TForCall
      <4>2. HandsOver
        BY <3>2, <1>1, TForCallKeeps
      <4> QED BY <4>1, <4>2, <1>1, HandsPlain
    <3> QED BY <2>10, <3>1, <3>2, <1>1, VarargPlain
  <2>11. CASE \E n \in Counts \cup {MULTRET} : Return(n)
    <3>1. PICK n \in Counts \cup {MULTRET} : Return(n)
      BY <2>11
    <3>2. prog' = prog
      BY <3>1 DEF Return
    <3>3. GoesBack
      BY <3>1, <1>1, ReturnKeeps
    <3> QED BY <3>2, <3>3, <1>1, GoesBackPlain
  <2>12. CASE \E s \in Shapes, fn \in prog.fns : s[2] = MULTRET /\ TailCall(fn, s[1])
    <3>1. PICK s \in Shapes, fn \in prog.fns : TailCall(fn, s[1])
      BY <2>12
    <3> DEFINE nargs == s[1]
    <3>2. nargs \in Nat /\ TailCall(fn, nargs)
      BY <3>1, CallsAssumption
    <3> HIDE DEF nargs
    <3>3. prog' = prog /\ Runs("body") /\ Frame.ready
      BY <3>2 DEF TailCall, MayLeave
    <3>4. HandsOver \/ TakesOver
      BY <3>2, <1>1, TailCallKeeps
    <3> QED BY <3>3, <3>4, <1>1, HandsPlain, TakesPlain
  <2>13. CASE \E r \in 0..(Live - 1) : Meta(r)
    <3>1. PICK r \in 0..(Live - 1) : Meta(r)
      BY <2>13
    <3>2. prog' = prog
      BY <3>1 DEF Meta
    <3>3. HandsOver
      BY <3>1, <1>1, MetaKeeps
    <3> QED BY <3>2, <3>3, <1>1, HandsPlain
  <2> QED
    BY <1>3, <1>4, <2>1, <2>2, <2>3, <2>4, <2>5, <2>6, <2>7, <2>8, <2>9, <2>10, <2>11, <2>12, <2>13
    DEF Instruction
<1>5. CASE Continuation
  <2>1. CASE CTailReturns
    <3>1. prog' = prog
      BY <2>1 DEF CTailReturns
    <3> QED BY <2>1, <3>1, <1>1, CTailReturnsKeeps, GoesBackPlain
  <2> QED
    BY <1>1, <1>3, <1>5, <2>1, RtCallReturnsPlain, SlowReturnsPlain, CcallReturnsPlain, MetaReturnsPlain,
       TForReturnsPlain, CloseReturnsPlain, DriveReturnsPlain, CResumesPlain DEF Continuation
<1>6. CASE CCalls
  <2>1. prog' = prog
    BY <1>6 DEF CCalls
  <2> QED BY <1>6, <2>1, <1>1, <1>3, CCallsKeeps, HandsPlain
<1>7. CASE \E n \in Counts \cup {Live - Frame.open} : CReturn(n)
  BY <1>7, <1>1, <1>3, CReturnPlain
<1>8. CASE Ended \/ UNCHANGED callsVars
  <2>1. /\ stk' = stk /\ nat' = nat /\ lua' = lua /\ rep' = rep /\ prog' = prog
    BY <1>8 DEF Ended, callsVars
  <2> QED BY <2>1, <1>3 DEF PlainInv
<1> QED
  BY <1>4, <1>5, <1>6, <1>7, <1>8 DEF CallsNext

(* In every state of such a program.                                       *)
LEMMA PlainSpecInv == PlainPrograms /\ CallsSpec => [](DataInv /\ PlainInv)
<1> SUFFICES ASSUME PlainPrograms PROVE CallsSpec => [](DataInv /\ PlainInv)
  OBVIOUS
<1>1. CallsInit => DataInv /\ PlainInv
  BY CallsInitData, PlainStarts
<1>2. LoopInv /\ (DataInv /\ PlainInv) /\ [CallsNext]_callsVars => (DataInv /\ PlainInv)'
  BY PlainNext
<1>3. CallsSpec => []LoopInv
  BY CallsSpecInv
<1> QED BY <1>1, <1>2, <1>3, PTL DEF CallsSpec

(* In a program that calls no vararg function with Rt_Call and asks for no *)
(* open "..." after a generic loop or a table constructor, what the code   *)
(* takes for granted of the stack holds throughout: no ceiling is ever     *)
(* beyond the headroom behind stack_last, and the top is above the         *)
(* registers wherever the collector may run for "...".                     *)
THEOREM PlainStackHolds == PlainPrograms /\ CallsSpec => []StackHolds
<1> SUFFICES ASSUME PlainPrograms PROVE CallsSpec => []StackHolds
  OBVIOUS
<1>1. LoopInv /\ (DataInv /\ PlainInv) => StackHolds
  BY PlainKnows
<1>2. CallsSpec => [](DataInv /\ PlainInv)
  BY PlainSpecInv
<1> QED BY <1>1, <1>2, CallsSpecInv, PTL

(* There no call takes a register from the function that makes it.         *)
THEOREM PlainRegistersPrivate == PlainPrograms /\ CallsSpec => []RegistersPrivate
<1> SUFFICES ASSUME PlainPrograms PROVE CallsSpec => []RegistersPrivate
  OBVIOUS
<1>1. CallsSpec => []StackHolds
  BY PlainStackHolds
<1> QED BY <1>1, SpecRegistersPrivate, PTL

(* And every open list ends at the top.                                    *)
THEOREM PlainListEndsAtTop == PlainPrograms /\ CallsSpec => []ListEndsAtTop
<1> SUFFICES ASSUME PlainPrograms PROVE CallsSpec => []ListEndsAtTop
  OBVIOUS
<1>1. CallsSpec => []StackHolds
  BY PlainStackHolds
<1> QED BY <1>1, SpecListEndsAtTop, PTL
=============================================================================
