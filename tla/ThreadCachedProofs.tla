------------------------- MODULE ThreadCachedProofs -------------------------
(***************************************************************************)
(* What lives on one thread, for any set of gates, any values, any depth   *)
(* of nesting and any number of nested initialisers.                       *)
(*                                                                         *)
(* OneHolder and FlagMeansInside are inductive together: the flag keeps a  *)
(* guarded gate from being entered twice, and distinct gates on the stack  *)
(* mean that leaving one call cannot clear the flag another one relies on. *)
(* AnswersAgree is not inductive as it stands: that an initialiser runs    *)
(* only while the thread holds no answer of the cache has to be added.     *)
(***************************************************************************)
EXTENDS ThreadCached, SequenceTheorems, TLAPS

Inv == TypeOK /\ OneHolder /\ FlagMeansInside /\ RefusedOnlyInside

(* A frame pushed on the stack goes on top and leaves the others alone.    *)
LEMMA Push ==
    ASSUME NEW s \in Seq(Frame), NEW f \in Frame
    PROVE  /\ Append(s, f) \in Seq(Frame)
           /\ Len(Append(s, f)) = Len(s) + 1
           /\ Append(s, f)[Len(s) + 1] = f
           /\ \A k \in 1 .. Len(s) : Append(s, f)[k] = s[k]
  OBVIOUS

(* The frames under the top stay where they are when it is popped.         *)
LEMMA Pop ==
    ASSUME NEW s \in Seq(Frame), Len(s) > 0
    PROVE  /\ SubSeq(s, 1, Len(s) - 1) \in Seq(Frame)
           /\ Len(SubSeq(s, 1, Len(s) - 1)) = Len(s) - 1
           /\ \A k \in 1 .. Len(s) - 1 : SubSeq(s, 1, Len(s) - 1)[k] = s[k]
  <1> DEFINE n == Len(s) - 1
             p == SubSeq(s, 1, n)
  <1>1. n \in Nat /\ \A k \in 1 .. n : s[k] \in Frame
    OBVIOUS
  <1> HIDE DEF n
  <1>2. /\ p \in Seq(Frame)
        /\ Len(p) = IF 1 <= n THEN n - 1 + 1 ELSE 0
        /\ \A k \in 1 .. n - 1 + 1 : p[k] = s[1 + k - 1]
    BY <1>1, SubSeqProperties
  <1> HIDE DEF p
  <1>3. Len(p) = n
    BY <1>1, <1>2
  <1>4. ASSUME NEW k \in 1 .. n
        PROVE  p[k] = s[k]
    <2>1. 1 + k - 1 = k /\ k \in 1 .. n - 1 + 1
      BY <1>1
    <2> QED
      BY <1>2, <2>1
  <1> QED
    BY <1>2, <1>3, <1>4 DEF n, p

(* Entering a gate that no call is inside keeps the invariant.             *)
LEMMA EntryInv ==
    ASSUME Inv, NEW g \in Gates, NEW b \in BOOLEAN, ~Inside(g),
           stack' = Append(stack, [gate |-> g, guarded |-> b]),
           active' = IF b THEN [active EXCEPT ![g] = TRUE] ELSE active,
           unwinding' \in BOOLEAN, refused' = {}
    PROVE  Inv'
  <1> DEFINE f == [gate |-> g, guarded |-> b]
  <1>1. f \in Frame /\ stack \in Seq(Frame) /\ active \in [Gates -> BOOLEAN]
    BY DEF Inv, TypeOK, Frame
  <1>2. /\ stack' \in Seq(Frame) /\ Len(stack') = Len(stack) + 1
        /\ stack'[Len(stack) + 1] = f
        /\ \A k \in 1 .. Len(stack) : stack'[k] = stack[k]
    BY <1>1, Push
  <1>3. Len(stack) \in Nat
    BY <1>1
  <1>4. TypeOK'
    BY <1>1, <1>2 DEF TypeOK
  <1>5. OneHolder'
    <2> SUFFICES ASSUME NEW j \in 1 .. Len(stack) + 1,
                        NEW k \in 1 .. Len(stack) + 1, j # k
                 PROVE  stack'[j].gate # stack'[k].gate
      BY <1>2 DEF OneHolder, Depth
    <2>1. \A m \in 1 .. Len(stack) : stack[m].gate # g
      BY DEF Inside, Depth
    <2>2. CASE j = Len(stack) + 1
      BY <1>2, <1>3, <2>1, <2>2
    <2>3. CASE k = Len(stack) + 1
      BY <1>2, <1>3, <2>1, <2>3
    <2>4. CASE j \in 1 .. Len(stack) /\ k \in 1 .. Len(stack)
      BY <1>2, <2>4 DEF Inv, OneHolder, Depth
    <2> QED
      BY <1>3, <2>2, <2>3, <2>4
  <1>6. FlagMeansInside'
    <2> SUFFICES ASSUME NEW h \in Gates
                 PROVE  active'[h] <=> \E k \in 1 .. Len(stack) + 1 :
                            stack'[k].gate = h /\ stack'[k].guarded
      BY <1>2 DEF FlagMeansInside, Depth
    <2>1. (\E k \in 1 .. Len(stack) + 1 : stack'[k].gate = h /\ stack'[k].guarded)
            <=> \/ g = h /\ b
                \/ \E k \in 1 .. Len(stack) : stack[k].gate = h /\ stack[k].guarded
      BY <1>2, <1>3
    <2>2. active[h] <=> \E k \in 1 .. Len(stack) :
              stack[k].gate = h /\ stack[k].guarded
      BY DEF Inv, FlagMeansInside, Depth
    <2>3. active'[h] <=> (g = h /\ b) \/ active[h]
      BY <1>1
    <2> QED
      BY <2>1, <2>2, <2>3
  <1> QED
    BY <1>4, <1>5, <1>6 DEF Inv, RefusedOnlyInside

(* enter: the flag is clear, and the contract of enter_unguarded excludes  *)
(* an unguarded call, so no call is inside the gate.                       *)
LEMMA EnterInv ==
    ASSUME Inv, NEW g \in Gates, enter(g)
    PROVE  Inv'
  <1>1. ~Inside(g)
    BY DEF Inv, FlagMeansInside, Inside, enter, acquire, Permitted
  <1> QED
    BY <1>1, EntryInv DEF enter, acquire, Inv, TypeOK

(* enter_unguarded: the same, and the flag stays clear.                    *)
LEMMA EnterUnguardedInv ==
    ASSUME Inv, NEW g \in Gates, enter_unguarded(g)
    PROVE  Inv'
  <1>1. ~Inside(g)
    BY DEF Inv, FlagMeansInside, Inside, enter_unguarded, FlagIsClear, Permitted
  <1> QED
    BY <1>1, EntryInv DEF enter_unguarded, Inv, TypeOK

(* Reset::drop clears the flag of the popped frame and of no other.        *)
LEMMA LeaveInv ==
    ASSUME Inv, Leave
    PROVE  Inv'
  <1>1. /\ stack \in Seq(Frame) /\ active \in [Gates -> BOOLEAN]
        /\ Len(stack) \in Nat /\ Len(stack) > 0
        /\ stack[Len(stack)] \in Frame
    BY DEF Inv, TypeOK, Leave, Depth
  <1>2. /\ stack' \in Seq(Frame) /\ Len(stack') = Len(stack) - 1
        /\ \A k \in 1 .. Len(stack) - 1 : stack'[k] = stack[k]
    BY <1>1, Pop DEF Leave, Depth
  <1> DEFINE t == stack[Len(stack)]
  <1>3. /\ t.gate \in Gates /\ t.guarded \in BOOLEAN
        /\ active' = IF t.guarded THEN [active EXCEPT ![t.gate] = FALSE]
                     ELSE active
    BY <1>1 DEF Frame, Leave, ResetDrop, Top, Depth
  <1>4. TypeOK'
    BY <1>1, <1>2, <1>3 DEF Inv, TypeOK, Leave
  <1>5. OneHolder'
    BY <1>1, <1>2 DEF Inv, OneHolder, Depth
  <1>6. FlagMeansInside'
    <2> SUFFICES ASSUME NEW h \in Gates
                 PROVE  active'[h] <=> \E k \in 1 .. Len(stack) - 1 :
                            stack[k].gate = h /\ stack[k].guarded
      BY <1>2 DEF FlagMeansInside, Depth
    <2>1. active[h] <=> \/ t.gate = h /\ t.guarded
                        \/ \E k \in 1 .. Len(stack) - 1 :
                              stack[k].gate = h /\ stack[k].guarded
      <3>1. active[h] <=> \E k \in 1 .. Len(stack) :
                stack[k].gate = h /\ stack[k].guarded
        BY DEF Inv, FlagMeansInside, Depth
      <3> QED
        BY <1>1, <3>1
    <2>2. CASE t.gate = h
      <3>1. \A k \in 1 .. Len(stack) - 1 : stack[k].gate # h
        BY <1>1, <2>2 DEF Inv, OneHolder, Depth
      <3>2. ~active'[h]
        BY <1>1, <1>3, <2>1, <2>2, <3>1
      <3> QED
        BY <3>1, <3>2
    <2>3. CASE t.gate # h
      <3>1. active'[h] = active[h]
        BY <1>1, <1>3, <2>3
      <3> QED
        BY <2>1, <2>3, <3>1
    <2> QED
      BY <2>2, <2>3
  <1> QED
    BY <1>4, <1>5, <1>6 DEF Inv, RefusedOnlyInside, Leave

(* Whatever leaves flags and calls alone keeps the invariant; a refusal    *)
(* finds the flag set, so the refusing call is inside the gate.            *)
LEMMA QuietInv ==
    ASSUME Inv, active' = active, stack' = stack, unwinding' \in BOOLEAN,
           refused' = refused \/ \E g \in Gates : active[g] /\ refused' = {g}
    PROVE  Inv'
  <1>1. TypeOK'
    BY DEF Inv, TypeOK
  <1>2. RefusedOnlyInside'
    BY DEF Inv, RefusedOnlyInside, FlagMeansInside, Inside, Depth
  <1> QED
    BY <1>1, <1>2 DEF Inv, OneHolder, FlagMeansInside, Depth

(* Every step of the gates keeps the invariant.                            *)
LEMMA StepInv == Inv /\ [Next]_vars => Inv'
  <1> SUFFICES ASSUME Inv, [Next]_vars
               PROVE  Inv'
    OBVIOUS
  <1>1. CASE \E g \in Gates : enter(g)
    BY <1>1, EnterInv
  <1>2. CASE \E g \in Gates : enter_unguarded(g)
    BY <1>2, EnterUnguardedInv
  <1>3. CASE Leave
    BY <1>3, LeaveInv
  <1>4. CASE \/ \E g \in Gates : Refuse(g)
             \/ Panics
             \/ Catches
             \/ UNCHANGED vars
    BY <1>4, QuietInv DEF Refuse, Panics, Catches, vars, Inv, TypeOK
  <1> QED
    BY <1>1, <1>2, <1>3, <1>4 DEF Next

(* No gate is open yet.                                                    *)
LEMMA StartInv == Init => Inv
  <1> SUFFICES ASSUME Init
               PROVE  Inv
    OBVIOUS
  <1>1. stack \in Seq(Frame) /\ Len(stack) = 0
    BY DEF Init
  <1>2. TypeOK
    BY <1>1 DEF Init, TypeOK
  <1> QED
    BY <1>1, <1>2 DEF Init, Inv, OneHolder, FlagMeansInside, RefusedOnlyInside, Depth

(* The cache beside the gates: an initialiser that panics starts to unwind *)
(* also where no gate is entered; the other steps of the cache touch no    *)
(* gate.                                                                   *)
LEMMA ThreadStepInv == Inv /\ [ThreadNext]_threadVars => Inv'
  <1> SUFFICES ASSUME Inv, [ThreadNext]_threadVars
               PROVE  Inv'
    OBVIOUS
  <1>1. CASE GateStep
    <2>1. Next
      BY <1>1 DEF GateStep, Next
    <2> QED
      BY <2>1, StepInv
  <1>2. CASE InitPanics
    BY <1>2, QuietInv DEF InitPanics
  <1>3. CASE \/ Hit \/ Miss \/ InitUnwinds \/ get \/ clear
             \/ \E v \in Values : InitReturns(v) \/ set(v)
             \/ UNCHANGED threadVars
    <2>1. UNCHANGED vars
      BY <1>3 DEF Hit, Miss, InitUnwinds, get, clear, InitReturns, set, threadVars
    <2> QED
      BY <2>1, StepInv
  <1> QED
    BY <1>1, <1>2, <1>3 DEF ThreadNext

(* For any number of gates nested to any depth, with panics anywhere and   *)
(* with initialisers in between: at most one call holds the contents of a  *)
(* gate.                                                                   *)
THEOREM NoAliasedContents == ThreadSpec => []OneHolder
  <1>1. Inv => OneHolder
    BY DEF Inv
  <1>2. ThreadInit => Inv
    BY StartInv DEF ThreadInit
  <1> QED
    BY <1>1, <1>2, ThreadStepInv, PTL DEF ThreadSpec

(* The flag of a gate tells at every moment whether a guarded call is      *)
(* inside it; in particular no panic leaves a gate locked.                 *)
THEOREM NeverPoisoned == ThreadSpec => []FlagMeansInside
  <1>1. Inv => FlagMeansInside
    BY DEF Inv
  <1>2. ThreadInit => Inv
    BY StartInv DEF ThreadInit
  <1> QED
    BY <1>1, <1>2, ThreadStepInv, PTL DEF ThreadSpec

(* Err(Reentered) is the answer to a call from inside the very gate and to *)
(* no other.                                                               *)
THEOREM RefusalsAreJustified == ThreadSpec => []RefusedOnlyInside
  <1>1. Inv => RefusedOnlyInside
    BY DEF Inv
  <1>2. ThreadInit => Inv
    BY StartInv DEF ThreadInit
  <1> QED
    BY <1>1, <1>2, ThreadStepInv, PTL DEF ThreadSpec

----------------------------------------------------------------------------
(* The cache.                                                              *)

(* While an initialiser is pending the thread holds no answer: the call it *)
(* runs for found nothing in the cache, and what the cache held agreed     *)
(* with the last answer.                                                   *)
NoAnswerMeanwhile ==
    answered # None => Outside /\ VALUE = answered

CacheInv ==
    /\ VALUE \in Values \cup {None}
    /\ answered \in Values \cup {None}
    /\ pending \in Seq(Nat)
    /\ NoAnswerMeanwhile

(* pending grows by one call and shrinks by one call.                      *)
LEMMA PendingCalls ==
    ASSUME NEW s \in Seq(Nat), NEW n \in Nat
    PROVE  /\ Append(s, n) \in Seq(Nat)
           /\ Append(s, n) # << >>
           /\ s # << >> => /\ SubSeq(s, 1, Len(s) - 1) \in Seq(Nat)
                           /\ SubSeq(s, 1, Len(s) - 1) = << >> <=> Len(s) = 1
  <1>1. Append(s, n) \in Seq(Nat) /\ Append(s, n) # << >>
    BY AppendProperties
  <1>2. ASSUME s # << >>
        PROVE  /\ SubSeq(s, 1, Len(s) - 1) \in Seq(Nat)
               /\ SubSeq(s, 1, Len(s) - 1) = << >> <=> Len(s) = 1
    <2> DEFINE m == Len(s) - 1
               p == SubSeq(s, 1, m)
    <2>1. m \in Nat /\ \A k \in 1 .. m : s[k] \in Nat
      BY <1>2
    <2>2. m = Len(s) - 1
      OBVIOUS
    <2> HIDE DEF m
    <2>3. p \in Seq(Nat) /\ Len(p) = IF 1 <= m THEN m - 1 + 1 ELSE 0
      BY <2>1, SubSeqProperties
    <2>4. Len(p) = m
      BY <2>1, <2>3
    <2> HIDE DEF p
    <2>5. p = << >> <=> m = 0
      BY <2>3, <2>4
    <2>6. m = 0 <=> Len(s) = 1
      BY <2>1, <2>2
    <2>7. p = SubSeq(s, 1, Len(s) - 1)
      BY <2>2 DEF p
    <2> QED
      BY <2>3, <2>5, <2>6, <2>7
  <1> QED
    BY <1>1, <1>2

(* Every step, of the cache and of the gates around it.                    *)
LEMMA CacheStep ==
    TypeOK /\ CacheInv /\ [ThreadNext]_threadVars => CacheInv'
  <1> SUFFICES ASSUME TypeOK, CacheInv, [ThreadNext]_threadVars
               PROVE  CacheInv'
    OBVIOUS
  <1>1. Depth \in Nat
    BY DEF TypeOK, Depth
  <1> USE DEF CacheInv, NoAnswerMeanwhile, Outside
  <1>2. CASE Hit
    BY <1>2 DEF Hit, Answer
  <1>3. CASE Miss
    BY <1>1, <1>3, PendingCalls DEF Miss
  <1>4. ASSUME NEW v \in Values, InitReturns(v)
        PROVE  CacheInv'
    <2>1. pending # << >> /\ answered = None
      BY <1>4 DEF InitReturns, InitIsInnermost
    <2>2. pending' \in Seq(Nat) /\ (pending' = << >> <=> Len(pending) = 1)
      BY <1>1, <1>4, <2>1, PendingCalls DEF InitReturns, Return
    <2>3. VALUE' = v /\ answered' = IF Len(pending) = 1 THEN v ELSE None
      BY <1>4, <2>1 DEF InitReturns, Stored, Answer
    <2> QED
      BY <2>2, <2>3
  <1>5. CASE InitPanics
    BY <1>5 DEF InitPanics, cacheVars
  <1>6. CASE InitUnwinds
    <2>1. pending # << >> /\ answered = None
      BY <1>6 DEF InitUnwinds, InitIsInnermost
    <2>2. pending' \in Seq(Nat)
      BY <1>1, <1>6, <2>1, PendingCalls DEF InitUnwinds, Return
    <2> QED
      BY <1>6, <2>1, <2>2 DEF InitUnwinds
  <1>7. ASSUME NEW v \in Values, set(v)
        PROVE  CacheInv'
    BY <1>7 DEF set, Answer
  <1>8. CASE get \/ clear
    BY <1>8 DEF get, clear, Answer
  <1>9. CASE GateStep \/ UNCHANGED threadVars
    BY <1>9 DEF GateStep, threadVars, cacheVars
  <1> QED
    BY <1>2, <1>3, <1>4, <1>5, <1>6, <1>7, <1>8, <1>9 DEF ThreadNext

(* However initialisers nest, call the cache themselves, panic and are     *)
(* caught: outside all of them the cache holds what the thread was told    *)
(* last.                                                                   *)
THEOREM CacheAgrees == ThreadSpec => []AnswersAgree
  <1>1. ThreadInit => Inv /\ CacheInv
    BY StartInv DEF ThreadInit, CacheInv, NoAnswerMeanwhile
  <1>2. Inv => TypeOK
    BY DEF Inv
  <1>3. CacheInv => AnswersAgree
    BY DEF CacheInv, NoAnswerMeanwhile, AnswersAgree
  <1> QED
    BY <1>1, <1>2, <1>3, ThreadStepInv, CacheStep, PTL DEF ThreadSpec
=============================================================================
